---------------------------- MODULE Spec2Model ----------------------------
(***************************************************************************)
(* State-machine model of the Guitar Pro controller                        *)
(* (src/src/controllers/guitar_pro): one current song, mutated by the      *)
(* operations of the track, measure, note and song controllers.            *)
(*                                                                         *)
(* Indices are 0-based as in the Python source; the k-th element of a      *)
(* Python list l is l[k+1] here.  A Python call is modelled by an operator *)
(* that maps the song before the call to a record                          *)
(*   [song |-> the song after the call, ret |-> the returned value,        *)
(*    raised |-> whether an exception left the call]                       *)
(* and by an action that applies the operator to current_song.             *)
(***************************************************************************)
EXTENDS Integers, Sequences, FiniteSets, TLC

(***************************************************************************)
(* Bounds of the model.                                                    *)
(***************************************************************************)
MaxSize == 7
MaxFret == 4

(***************************************************************************)
(* Python list access: l[i] accepts -len(l) <= i < len(l) and raises       *)
(* IndexError otherwise.                                                   *)
(***************************************************************************)
PyIndexOK(l, i) == i >= 0 - Len(l) /\ i < Len(l)

PyPos(l, i) == IF i >= 0 THEN i + 1 ELSE Len(l) + i + 1

(***************************************************************************)
(* An attribute assignment "obj.name = value" gives the object the         *)
(* attribute when it did not hold it; an attribute a record of the model   *)
(* does not hold has the value its class gives it.                         *)
(***************************************************************************)
SetAttr(obj, name, value) ==
    [k \in DOMAIN obj \cup {name} |-> IF k = name THEN value ELSE obj[k]]

GetAttr(obj, name, default) ==
    IF name \in DOMAIN obj THEN obj[name] ELSE default

(***************************************************************************)
(* A list is a sequence held element by element.                           *)
(***************************************************************************)
Tuple(f) == SubSeq(f, 1, Len(f))

SeqOf(n, x) == Tuple([k \in 1..n |-> x])

RECURSIVE ConcatAll(_)
ConcatAll(ss) == IF ss = <<>> THEN <<>> ELSE Head(ss) \o ConcatAll(Tail(ss))

(***************************************************************************)
(* Document model (guitarpro.models).  The entity classes are not part of  *)
(* the controller sources; their constructors are modelled as the empty    *)
(* containers the controllers fill in.                                     *)
(***************************************************************************)
NoSong == [loaded |-> FALSE]

NewSong ==
    [loaded |-> TRUE, title |-> "", artist |-> "", tempo |-> 120,
     measureHeaders |-> <<>>, tracks |-> <<>>]

NewTrack ==
    [name |-> "Track", instrument |-> 25, volume |-> 104, balance |-> 64,
     isPercussionTrack |-> FALSE, strings |-> <<>>, measures |-> <<>>]

GuitarString(number, value) == [number |-> number, value |-> value]

NewMeasureHeader == [numerator |-> 4, denominator |-> 4, keySignature |-> 0]

NewMeasure(header) == [header |-> header, voices |-> <<>>]

NewVoice == [beats |-> <<>>]

NewDuration == [value |-> 4, isDotted |-> FALSE, isRest |-> FALSE]

NewBeat == [duration |-> NewDuration, notes |-> <<>>]

NewNote ==
    [string |-> 0, value |-> 0, velocity |-> 95, isTiedNote |-> FALSE,
     effect |-> {}]

Result(song, ret) == [song |-> song, ret |-> ret, raised |-> FALSE]

Raise(song) == [song |-> song, ret |-> FALSE, raised |-> TRUE]

(***************************************************************************)
(* TrackOperationsController.add_track                                     *)
(***************************************************************************)
StringTuning == <<64, 59, 55, 50, 45, 40>>

add_track(song, name) ==
    LET s1 == IF song = NoSong THEN [NewSong EXCEPT !.title = "New Song"]
              ELSE song
        track == [NewTrack EXCEPT
                    !.name = name,
                    !.instrument = 24,
                    !.strings = Tuple([i \in 1..Len(StringTuning) |->
                                    GuitarString(i, StringTuning[i])])]
        s2 == [s1 EXCEPT !.tracks = Append(@, track)]
    IN  Result(s2, Len(s2.tracks) - 1)

(***************************************************************************)
(* MeasureOperationsController.add_measure_header and                      *)
(* SongOperationsController.create_new_song call each other: a controller  *)
(* without a song creates one before it adds the header.                   *)
(***************************************************************************)
RECURSIVE add_measure_header(_)

(* create_new_song that fills in the song it holds instead of a new one *)
create_new_song_in_place(song, title, artist) ==
    LET s0 == [(IF song = NoSong THEN NewSong ELSE song) EXCEPT
                 !.title = title, !.artist = artist]
        s1 == add_track(s0, "Guitar").song
        s2 == add_measure_header(s1).song
    IN  Result([s2 EXCEPT !.tempo = 120], TRUE)

create_new_song(song, title, artist) ==
    LET s0 == [NewSong EXCEPT !.title = title, !.artist = artist]
        s1 == add_track(s0, "Guitar").song
        s2 == add_measure_header(s1).song
    IN  Result([s2 EXCEPT !.tempo = 120], TRUE)

(* add_measure_header that gives the new measure to the first track only *)
add_measure_header_first_track(song) ==
    LET s1 == IF song = NoSong THEN create_new_song(song, "New Song", "").song
              ELSE song
        header == [NewMeasureHeader EXCEPT
                     !.numerator = 4, !.denominator = 4, !.keySignature = 0]
        h == Len(s1.measureHeaders)
        s2 == [s1 EXCEPT
                 !.measureHeaders = Append(@, header),
                 !.tracks = Tuple([t \in 1..Len(s1.tracks) |->
                    IF t > 1 THEN s1.tracks[t]
                    ELSE [s1.tracks[t] EXCEPT
                       !.measures = Append(@,
                          [NewMeasure(h) EXCEPT !.voices = Append(@, NewVoice)])]])]
    IN  Result(s2, Len(s2.measureHeaders) - 1)

add_measure_header(song) ==
    LET s1 == IF song = NoSong THEN create_new_song(song, "New Song", "").song
              ELSE song
        header == [NewMeasureHeader EXCEPT
                     !.numerator = 4, !.denominator = 4, !.keySignature = 0]
        h == Len(s1.measureHeaders)
        s2 == [s1 EXCEPT
                 !.measureHeaders = Append(@, header),
                 !.tracks = Tuple([t \in 1..Len(s1.tracks) |->
                    [s1.tracks[t] EXCEPT
                       !.measures = Append(@,
                          [NewMeasure(h) EXCEPT !.voices = Append(@, NewVoice)])]])]
    IN  Result(s2, Len(s2.measureHeaders) - 1)

(***************************************************************************)
(* NoteOperationsController.add_note.  The body runs inside try/except:    *)
(* an IndexError raised by tracks[track_index], voices[voice_index] or     *)
(* beats[beat_index] is caught and the call returns False, after whatever  *)
(* it appended before.                                                     *)
(***************************************************************************)
GrownVoices(voices, voice_index) ==
    IF Len(voices) <= voice_index
    THEN voices \o SeqOf(voice_index + 1 - Len(voices), NewVoice)
    ELSE voices

(* a beat whose duration is never set *)
BeatOfDefault(duration) == NewBeat

BeatOf(duration) ==
    [NewBeat EXCEPT !.duration = [NewDuration EXCEPT !.value = duration]]

NoteEffect(flags) ==
    {IF f = "is_bend" THEN "bend"
     ELSE IF f = "is_harmonic" THEN "isHarmonic"
     ELSE IF f = "is_slide" THEN "isSlide"
     ELSE IF f = "is_vibrato" THEN "isVibrato"
     ELSE IF f = "is_ghost" THEN "isGhostNote"
     ELSE IF f = "is_dead" THEN "isDeadNote"
     ELSE IF f = "is_hammer_on" THEN "isHammerOn"
     ELSE "isPullOff" : f \in flags}

(* the track check without its lower bound *)
NoteTrackOKNoLower(song, track_index) == ~(track_index >= Len(song.tracks))

NoteTrackOK(song, track_index) ==
    ~(track_index < 0 \/ track_index >= Len(song.tracks))

add_note(song, track_index, measure_index, string, fret, duration, voice_index, beat_index) ==
    IF song = NoSong THEN Result(song, FALSE)
    ELSE IF ~NoteTrackOK(song, track_index) THEN Result(song, FALSE)
    ELSE IF ~PyIndexOK(song.tracks, track_index) THEN Result(song, FALSE)
    ELSE IF measure_index < 0
            \/ measure_index
                  >= Len(song.tracks[PyPos(song.tracks, track_index)].measures)
    THEN Result(song, FALSE)
    ELSE
    LET t == PyPos(song.tracks, track_index)
        m == measure_index + 1
        voices1 == GrownVoices(song.tracks[t].measures[m].voices, voice_index)
        s1 == [song EXCEPT !.tracks[t].measures[m].voices = voices1]
    IN  IF ~PyIndexOK(voices1, voice_index) THEN Result(s1, FALSE)
        ELSE
        LET v == PyPos(voices1, voice_index)
            beats0 == voices1[v].beats
            beats1 == IF beat_index >= Len(beats0)
                      THEN Append(beats0, BeatOf(duration))
                      ELSE beats0
            s2 == [s1 EXCEPT !.tracks[t].measures[m].voices[v].beats = beats1]
        IN  IF ~PyIndexOK(beats1, beat_index) THEN Result(s2, FALSE)
            ELSE
            LET b == PyPos(beats1, beat_index)
                note == [NewNote EXCEPT !.value = fret, !.string = string]
            IN  Result([s2 EXCEPT
                          !.tracks[t].measures[m].voices[v].beats[b].notes =
                              Append(@, note)],
                       TRUE)

(***************************************************************************)
(* NoteOperationsController.add_note_with_effects                          *)
(***************************************************************************)
add_note_with_effects(song, track_index, measure_index, string, fret, duration, voice_index, beat_index, flags) ==
    IF song = NoSong THEN Result(song, FALSE)
    ELSE IF ~NoteTrackOK(song, track_index) THEN Result(song, FALSE)
    ELSE IF ~PyIndexOK(song.tracks, track_index) THEN Result(song, FALSE)
    ELSE IF measure_index < 0
            \/ measure_index
                  >= Len(song.tracks[PyPos(song.tracks, track_index)].measures)
    THEN Result(song, FALSE)
    ELSE
    LET t == PyPos(song.tracks, track_index)
        m == measure_index + 1
        voices1 == GrownVoices(song.tracks[t].measures[m].voices, voice_index)
        s1 == [song EXCEPT !.tracks[t].measures[m].voices = voices1]
    IN  IF ~PyIndexOK(voices1, voice_index) THEN Result(s1, FALSE)
        ELSE
        LET v == PyPos(voices1, voice_index)
            beats0 == voices1[v].beats
            beats1 == IF beat_index >= Len(beats0)
                      THEN Append(beats0, BeatOf(duration))
                      ELSE beats0
            s2 == [s1 EXCEPT !.tracks[t].measures[m].voices[v].beats = beats1]
        IN  IF ~PyIndexOK(beats1, beat_index) THEN Result(s2, FALSE)
            ELSE
            LET b == PyPos(beats1, beat_index)
                note == [NewNote EXCEPT !.value = fret, !.string = string,
                                        !.effect = NoteEffect(flags)]
            IN  Result([s2 EXCEPT
                          !.tracks[t].measures[m].voices[v].beats[b].notes =
                              Append(@, note)],
                       TRUE)

(* the loop with "while index > len(...)" *)
RECURSIVE AddHeadersShort(_, _)
AddHeadersShort(song, n) ==
    IF n <= 1 THEN song
    ELSE AddHeadersShort(add_measure_header(song).song, n - 1)

(***************************************************************************)
(* The loop "while index >= len(...): self.add_measure_header()" of        *)
(* add_note_simple, set_time_signature, set_key_signature and set_tempo.   *)
(***************************************************************************)
RECURSIVE AddHeaders(_, _)
AddHeaders(song, n) ==
    IF n <= 0 THEN song ELSE AddHeaders(add_measure_header(song).song, n - 1)

(***************************************************************************)
(* NoteOperationsController.add_note_simple.  No try/except: an IndexError *)
(* leaves the call as an exception.  The steps of the body, in order:      *)
(*   SongOrNew        "if not self.current_song: self.create_new_song()"   *)
(*   AddHeaders       the loop that grows the measures                     *)
(*   FirstVoice       "if not measure.voices: ... append(voice)"           *)
(*   GrownBeats       "while beat_index >= len(voice.beats): ... append"   *)
(*   PlaceSimple      the note appended to voices[0].beats[beat_index]     *)
(***************************************************************************)
SongOrNew(song) ==
    IF song = NoSong THEN create_new_song(song, "New Song", "").song ELSE song

FirstVoice(voices) == IF voices = <<>> THEN <<NewVoice>> ELSE voices

GrownBeats(beats, beat_index, duration) ==
    beats \o SeqOf(beat_index + 1 - Len(beats), BeatOf(duration))

PlaceSimple(s1, t, measure_index, beat_index, string, fret, duration) ==
    IF ~PyIndexOK(s1.tracks[t].measures, measure_index) THEN Raise(s1)
    ELSE
    LET m == PyPos(s1.tracks[t].measures, measure_index)
        voices1 == FirstVoice(s1.tracks[t].measures[m].voices)
        beats1 == GrownBeats(voices1[1].beats, beat_index, duration)
        note == [NewNote EXCEPT !.string = string, !.value = fret]
    IN  IF ~PyIndexOK(beats1, beat_index)
        THEN Raise([s1 EXCEPT !.tracks[t].measures[m].voices =
                                 [voices1 EXCEPT ![1].beats = beats1]])
        ELSE Result([s1 EXCEPT !.tracks[t].measures[m].voices =
                        [voices1 EXCEPT ![1].beats =
                            [beats1 EXCEPT ![PyPos(beats1, beat_index)].notes =
                                              Append(@, note)]]],
                    TRUE)

add_note_simple(song, track_index, measure_index, beat_index, string, fret, duration) ==
    IF track_index < 0 \/ track_index >= Len(SongOrNew(song).tracks)
    THEN Result(SongOrNew(song), FALSE)
    ELSE PlaceSimple(AddHeaders(SongOrNew(song),
                                measure_index + 1
                                - Len(SongOrNew(song).tracks[track_index + 1]
                                                     .measures)),
                     track_index + 1, measure_index, beat_index, string, fret,
                     duration)

(***************************************************************************)
(* TrackOperationsController.set_track_properties.  An optional argument   *)
(* is a set: {} for None, {x} for the value x.  The assignments are made   *)
(* in the order name, instrument, volume, pan; the first value out of      *)
(* range returns False.                                                    *)
(***************************************************************************)
None == {}

Some(x) == {x}

Value(opt) == CHOOSE x \in opt : TRUE

set_track_properties(song, track_index, name, instrument, volume, pan) ==
    IF song = NoSong THEN Result(song, FALSE)
    ELSE IF track_index < 0 \/ track_index >= Len(song.tracks)
    THEN Result(song, FALSE)
    ELSE
    LET t == track_index + 1
        s1 == IF name # None
              THEN [song EXCEPT !.tracks[t].name = Value(name)] ELSE song
    IN  IF instrument # None /\ ~(0 <= Value(instrument) /\ Value(instrument) <= 127)
        THEN Result(s1, FALSE)
        ELSE
        LET s2 == IF instrument # None
                  THEN [s1 EXCEPT !.tracks[t].instrument = Value(instrument)]
                  ELSE s1
        IN  IF volume # None /\ ~(0 <= Value(volume) /\ Value(volume) <= 100)
            THEN Result(s2, FALSE)
            ELSE
            LET s3 == IF volume # None
                      THEN [s2 EXCEPT !.tracks[t].volume = Value(volume)]
                      ELSE s2
            IN  IF pan # None /\ ~(0 - 64 <= Value(pan) /\ Value(pan) <= 63)
                THEN Result(s3, FALSE)
                ELSE Result(IF pan # None
                            THEN [s3 EXCEPT !.tracks[t].balance = Value(pan)]
                            ELSE s3,
                            TRUE)

(***************************************************************************)
(* TrackOperationsController.transpose_track                               *)
(***************************************************************************)
StringsNumbered(strings, number) ==
    {i \in 1..Len(strings) : strings[i].number = number}

FirstString(strings, number) ==
    strings[CHOOSE i \in StringsNumbered(strings, number) :
                \A j \in StringsNumbered(strings, number) : i <= j]

(* transposition that does not skip tied notes *)
TransposedNoteTied(strings, note, semitones) ==
    IF StringsNumbered(strings, note.string) = {} THEN note
    ELSE
    LET string_obj == FirstString(strings, note.string)
        new_fret == string_obj.value + note.value + semitones - string_obj.value
    IN  IF new_fret >= 0 THEN [note EXCEPT !.value = new_fret] ELSE note

(* transposition whose guard compares the new fret with the old one *)
TransposedNoteUpOnly(strings, note, semitones) ==
    IF note.isTiedNote THEN note
    ELSE IF StringsNumbered(strings, note.string) = {} THEN note
    ELSE
    LET string_obj == FirstString(strings, note.string)
        new_fret == string_obj.value + note.value + semitones - string_obj.value
    IN  IF new_fret >= note.value THEN [note EXCEPT !.value = new_fret] ELSE note

(* transposition whose guard tests the new pitch instead of the new fret *)
TransposedNotePitch(strings, note, semitones) ==
    IF note.isTiedNote THEN note
    ELSE IF StringsNumbered(strings, note.string) = {} THEN note
    ELSE
    LET string_obj == FirstString(strings, note.string)
        new_pitch == string_obj.value + note.value + semitones
    IN  IF new_pitch >= 0
        THEN [note EXCEPT !.value = new_pitch - string_obj.value] ELSE note

TransposedNote(strings, note, semitones) ==
    IF note.isTiedNote THEN note
    ELSE IF StringsNumbered(strings, note.string) = {} THEN note
    ELSE
    LET string_obj == FirstString(strings, note.string)
        current_pitch == string_obj.value + note.value
        new_pitch == current_pitch + semitones
        new_fret == new_pitch - string_obj.value
    IN  IF new_fret >= 0 THEN [note EXCEPT !.value = new_fret] ELSE note

TransposedBeat(strings, beat, semitones) ==
    [beat EXCEPT !.notes =
        Tuple([k \in 1..Len(beat.notes) |->
                  TransposedNote(strings, beat.notes[k], semitones)])]

TransposedVoice(strings, voice, semitones) ==
    [voice EXCEPT !.beats =
        Tuple([b \in 1..Len(voice.beats) |->
                  TransposedBeat(strings, voice.beats[b], semitones)])]

TransposedMeasure(strings, measure, semitones) ==
    [measure EXCEPT !.voices =
        Tuple([v \in 1..Len(measure.voices) |->
                  TransposedVoice(strings, measure.voices[v], semitones)])]

transpose_track(song, track_index, semitones) ==
    IF song = NoSong THEN Result(song, FALSE)
    ELSE IF track_index < 0 \/ track_index >= Len(song.tracks)
    THEN Result(song, FALSE)
    ELSE
    LET t == track_index + 1
        track == song.tracks[t]
    IN  Result([song EXCEPT !.tracks[t].measures =
                   Tuple([m \in 1..Len(track.measures) |->
                       TransposedMeasure(track.strings, track.measures[m],
                                         semitones)])],
               TRUE)

(***************************************************************************)
(* TrackOperationsController.get_track_notes                               *)
(***************************************************************************)
NoteInfo(measure_index, voice_index, beat_index, beat, note) ==
    [measure |-> measure_index, voice |-> voice_index, beat |-> beat_index,
     string |-> note.string, value |-> note.value,
     duration |-> beat.duration.value, is_dotted |-> beat.duration.isDotted,
     is_rest |-> beat.duration.isRest, has_tie |-> note.isTiedNote]

get_track_notes(song, track_index) ==
    IF song = NoSong THEN <<>>
    ELSE IF track_index < 0 \/ track_index >= Len(song.tracks) THEN <<>>
    ELSE
    LET track == song.tracks[track_index + 1]
    IN  ConcatAll([m \in 1..Len(track.measures) |->
          ConcatAll([v \in 1..Len(track.measures[m].voices) |->
            ConcatAll([b \in 1..Len(track.measures[m].voices[v].beats) |->
              Tuple([k \in 1..Len(track.measures[m].voices[v].beats[b].notes) |->
                 NoteInfo(m - 1, v - 1, b - 1,
                          track.measures[m].voices[v].beats[b],
                          track.measures[m].voices[v].beats[b].notes[k])])])])])

(***************************************************************************)
(* MeasureOperationsController.set_time_signature, set_key_signature and   *)
(* set_tempo.  No try/except: measureHeaders[measure_index] on an index    *)
(* below -len raises IndexError.                                           *)
(***************************************************************************)
set_time_signature(song, measure_index, numerator, denominator) ==
    IF song = NoSong THEN Result(song, FALSE)
    ELSE
    LET s1 == AddHeaders(song, measure_index + 1 - Len(song.measureHeaders))
    IN  IF ~PyIndexOK(s1.measureHeaders, measure_index) THEN Raise(s1)
        ELSE
        LET h == PyPos(s1.measureHeaders, measure_index)
        IN  Result([s1 EXCEPT !.measureHeaders[h].numerator = numerator,
                              !.measureHeaders[h].denominator = denominator],
                   TRUE)

set_key_signature(song, measure_index, key) ==
    IF song = NoSong THEN Result(song, FALSE)
    ELSE
    LET s1 == AddHeaders(song, measure_index + 1 - Len(song.measureHeaders))
    IN  IF ~PyIndexOK(s1.measureHeaders, measure_index) THEN Raise(s1)
        ELSE
        LET h == PyPos(s1.measureHeaders, measure_index)
        IN  Result([s1 EXCEPT !.measureHeaders[h].keySignature = key], TRUE)

(* set_tempo that takes the tempo of the first measure for the song's *)
set_tempo_of_first_measure(song, measure_index, tempo) ==
    IF song = NoSong THEN Result(song, FALSE)
    ELSE
    LET s1 == AddHeaders(song, measure_index + 1 - Len(song.measureHeaders))
    IN  IF ~PyIndexOK(s1.measureHeaders, measure_index) THEN Raise(s1)
        ELSE IF measure_index # 0 THEN Result(s1, TRUE)
        ELSE Result([s1 EXCEPT !.tempo = tempo], TRUE)

set_tempo(song, measure_index, tempo) ==
    IF song = NoSong THEN Result(song, FALSE)
    ELSE
    LET s1 == AddHeaders(song, measure_index + 1 - Len(song.measureHeaders))
    IN  IF ~PyIndexOK(s1.measureHeaders, measure_index) THEN Raise(s1)
        ELSE Result([s1 EXCEPT !.tempo = tempo], TRUE)

(***************************************************************************)
(* FileOperationsController.load_file: guitarpro.parse either returns the  *)
(* decoded song or raises.  The files of the model: one that decodes to a  *)
(* one-track song on four strings whose only beat holds a plain note and a *)
(* tied note, one that does not decode, and one that decodes to a song the *)
(* inspection after parsing fails on.                                      *)
(***************************************************************************)
RiffTrack ==
    [name |-> "Lead", instrument |-> 30, volume |-> 100, balance |-> 0,
     isPercussionTrack |-> FALSE,
     strings |-> <<GuitarString(2, 38), GuitarString(1, 43),
                   GuitarString(3, 33), GuitarString(4, 28)>>,
     measures |-> <<
        [header |-> 0,
         voices |-> <<
            [beats |-> <<
                [duration |-> [value |-> 2, isDotted |-> TRUE, isRest |-> FALSE],
                 notes |-> <<
                    [string |-> 2, value |-> 1, velocity |-> 95,
                     isTiedNote |-> FALSE, effect |-> {}],
                    [string |-> 1, value |-> 1, velocity |-> 95,
                     isTiedNote |-> TRUE, effect |-> {}]>>]>>]>>]>>]

RiffSong ==
    [loaded |-> TRUE, title |-> "Riff", artist |-> "Bo", tempo |-> 90,
     measureHeaders |-> <<[numerator |-> 4, denominator |-> 4, keySignature |-> 0]>>,
     tracks |-> <<RiffTrack>>]

OddSong == [RiffSong EXCEPT !.title = "Odd"]

Files == {"riff.gp5", "corrupt.gp5", "odd.gp5"}

Decodes(file_path) == file_path # "corrupt.gp5"

parse(file_path) == IF file_path = "odd.gp5" THEN OddSong ELSE RiffSong

(* The song parse returned is read attribute by attribute for the log; a   *)
(* song on which one of these reads raises ends the call after the handler *)
(* has taken it.                                                           *)
Inspects(file_path) == file_path # "odd.gp5"

RaiseHeld(song, held) ==
    [song |-> song, ret |-> FALSE, raised |-> TRUE, held |-> held]

load_file(song, file_path) ==
    IF ~Decodes(file_path) THEN Raise(song)
    ELSE IF ~Inspects(file_path) THEN RaiseHeld(song, parse(file_path))
    ELSE Result(parse(file_path), "None")

(***************************************************************************)
(* GuitarProController.__getattr__ looks the method up in its handlers, in *)
(* the order file_ops, song_ops, track_ops, measure_ops, note_ops, and     *)
(* raises AttributeError when none of them has it.  SongOperations-        *)
(* Controller inherits the track, measure and note controllers.            *)
(***************************************************************************)
MixinMethods == {"_ensure_song_loaded"}

FileMethods ==
    {"load_file", "save_file", "export_to_midi", "export_to_json",
     "import_from_json"}

TrackMethods ==
    {"get_tracks", "get_track_notes", "add_track", "set_track_properties",
     "transpose_track", "get_track_tab", "_note_from_value", "get_track_info"}

MeasureMethods ==
    {"add_measure_header", "set_time_signature", "set_key_signature",
     "set_tempo", "get_measure_info"}

NoteMethods ==
    {"add_note", "add_note_simple", "get_note_info", "add_note_with_effects"}

SongMethods ==
    {"get_song_info", "create_new_song", "set_song_properties",
     "get_song_statistics", "set_lyrics", "get_lyrics", "set_page_setup",
     "get_page_setup", "set_advanced_metadata", "get_advanced_metadata",
     "add_repeat_group", "get_repeat_groups", "add_section", "get_sections",
     "add_coda", "add_double_bar", "get_song_structure"}

ChordMethods == {"add_chord", "get_chord"}

Handlers == <<"file_ops", "song_ops", "track_ops", "measure_ops", "note_ops">>

Methods(handler) ==
    MixinMethods \cup
        CASE handler = "file_ops" -> FileMethods
          [] handler = "song_ops" ->
                SongMethods \cup TrackMethods \cup MeasureMethods \cup NoteMethods
          [] handler = "track_ops" -> TrackMethods
          [] handler = "measure_ops" -> MeasureMethods
          [] handler = "note_ops" -> NoteMethods
          [] handler = "chord_ops" -> ChordMethods

hasattr(handler, name) == name \in Methods(handler)

NoHandler == "AttributeError"

HandlerOf(name) ==
    IF \E h \in 1..Len(Handlers) : hasattr(Handlers[h], name)
    THEN Handlers[CHOOSE h \in 1..Len(Handlers) :
            /\ hasattr(Handlers[h], name)
            /\ \A g \in 1..(h - 1) : ~hasattr(Handlers[g], name)]
    ELSE NoHandler

(***************************************************************************)
(* The controller and its caller.                                          *)
(*   current_song  the song GuitarProController holds                      *)
(*   last          the call in progress, with its arguments and outcome,   *)
(*                 or Idle between two calls                               *)
(*   before        the song held when the call in progress was made        *)
(*   earlier       the completed call that came right before, kept when it *)
(*                 was a successful create_new_song or a successful        *)
(*                 transpose_track or add_repeat_group (then with the song *)
(*                 it started from)                                        *)
(*   origin        the operation that made the song held: create_new_song, *)
(*                 add_track (on a controller without a song) or load_file *)
(*   handler_song  the song each handler holds in its own current_song,    *)
(*                 followed through the calls made by Dispatch; Call gives *)
(*                 the operation the controller's song at once and leaves  *)
(*                 the handlers' songs aside                               *)
(***************************************************************************)
VARIABLES current_song, before, last, earlier, origin, handler_song

vars == <<current_song, before, last, earlier, origin, handler_song>>

Idle == [op |-> "idle"]

NoCall == [op |-> "none"]

VoicesOf(song) ==
    ConcatAll([t \in 1..Len(song.tracks) |->
      ConcatAll([m \in 1..Len(song.tracks[t].measures) |->
        song.tracks[t].measures[m].voices])])

BeatsOf(voices) == ConcatAll([v \in 1..Len(voices) |-> voices[v].beats])

NotesOf(beats) == ConcatAll([b \in 1..Len(beats) |-> beats[b].notes])

(***************************************************************************)
(* The size of a song: the number of its tracks, headers, voices, beats,   *)
(* notes and repeat groups.  The model explores the songs of size at most MaxSize whose  *)
(* frets lie within -MaxFret..MaxFret.                                     *)
(***************************************************************************)
WithinBounds(song) ==
    song # NoSong =>
        \E voices \in {VoicesOf(song)} :
        \E beats \in {BeatsOf(voices)} :
        \E notes \in {NotesOf(beats)} :
            /\ Len(song.tracks) + Len(song.measureHeaders) + Len(voices)
                  + Len(beats) + Len(notes)
                  + Len(GetAttr(song, "repeatGroups", <<>>)) <= MaxSize
            /\ \A k \in 1..Len(notes) :
                  notes[k].value <= MaxFret /\ notes[k].value >= 0 - MaxFret

(* A controller that takes the handler's song even when the call raises.  *)
CallKeepingHandlerSong(op, args, result, made) ==
    /\ last = Idle
    /\ \E r \in {result} :
        /\ WithinBounds(r.song)
        /\ current_song' =
              IF "held" \in DOMAIN r THEN r.held
              ELSE IF r.raised /\ current_song = NoSong THEN NoSong ELSE r.song
        /\ origin' =
              IF r.raised /\ current_song = NoSong THEN origin
              ELSE IF made # "" THEN made ELSE origin
        /\ last' =
              IF "written" \in DOMAIN r
              THEN [op |-> op, args |-> args, ret |-> r.ret,
                    raised |-> r.raised, written |-> r.written]
              ELSE IF "held" \in DOMAIN r
              THEN [op |-> op, args |-> args, ret |-> r.ret,
                    raised |-> r.raised, held |-> r.held]
              ELSE [op |-> op, args |-> args, ret |-> r.ret,
                    raised |-> r.raised]
        /\ before' = current_song
        /\ earlier' = earlier
        /\ handler_song' = handler_song

(***************************************************************************)
(* GuitarProController.__getattr__: the handler gets the controller's song *)
(* before the call and the controller takes the handler's song after it.   *)
(* When the call raises, the controller keeps the object it held: the      *)
(* changes made to that object stay, a song the handler created in place   *)
(* of no song is dropped.  The call in progress records what the call      *)
(* wrote to a file (written) and, when the handler ends with another song  *)
(* object than the controller's, the song the handler holds (held).        *)
(***************************************************************************)
Call(op, args, result, made) ==
    /\ last = Idle
    /\ \E r \in {result} :
        /\ WithinBounds(r.song)
        /\ current_song' =
              IF r.raised /\ current_song = NoSong THEN NoSong ELSE r.song
        /\ origin' =
              IF r.raised /\ current_song = NoSong THEN origin
              ELSE IF made # "" THEN made ELSE origin
        /\ last' =
              IF "written" \in DOMAIN r
              THEN [op |-> op, args |-> args, ret |-> r.ret,
                    raised |-> r.raised, written |-> r.written]
              ELSE IF "held" \in DOMAIN r
              THEN [op |-> op, args |-> args, ret |-> r.ret,
                    raised |-> r.raised, held |-> r.held]
              ELSE [op |-> op, args |-> args, ret |-> r.ret,
                    raised |-> r.raised]
        /\ before' = current_song
        /\ earlier' = earlier
        /\ handler_song' = handler_song

(***************************************************************************)
(* The tool wrappers of mcp_tools.py turn the outcome of the call into the *)
(* response; the controller is then ready for the next call.               *)
(***************************************************************************)
Respond ==
    /\ last # Idle
    /\ earlier' =
          IF last.op = "transpose_track" /\ ~last.raised /\ last.ret = TRUE
          THEN [op |-> last.op, args |-> last.args, song |-> before]
          ELSE IF last.op = "create_new_song" /\ ~last.raised /\ last.ret = TRUE
          THEN [op |-> last.op, args |-> last.args]
          ELSE IF last.op = "add_repeat_group" /\ ~last.raised /\ last.ret = TRUE
          THEN [op |-> last.op, args |-> last.args, song |-> before]
          ELSE NoCall
    /\ last' = Idle
    /\ before' = current_song
    /\ UNCHANGED <<current_song, origin, handler_song>>

Init ==
    /\ current_song = NoSong
    /\ before = NoSong
    /\ last = Idle
    /\ earlier = NoCall
    /\ origin = "none"
    /\ handler_song = [h \in {Handlers[i] : i \in 1..Len(Handlers)} |-> NoSong]

Titles == {"Test"}
Artists == {"Ann"}
TrackNames == {"Bass"}
TrackIndexes == (0 - 1)..2
EditedTracks == (0 - 1)..1
MeasureIndexes == (0 - 1)..1
VoiceIndexes == 0..1
BeatIndexes == (0 - 1)..1
StringNumbers == {5}
Frets == {3}
Durations == {8}
Semitones == {0 - 2, 2}
EffectTracks == {0}
EffectMeasures == {0}
EffectFlags == {{"is_bend", "is_hammer_on"}}

CreateNewSong ==
    \E title \in Titles, artist \in Artists :
        Call("create_new_song", [title |-> title, artist |-> artist],
             create_new_song(current_song, title, artist), "create_new_song")

LoadFile ==
    \E file_path \in Files :
        Call("load_file", [file_path |-> file_path],
             load_file(current_song, file_path),
             IF Decodes(file_path) /\ Inspects(file_path) THEN "load_file" ELSE "")

AddTrack ==
    \E name \in TrackNames :
        Call("add_track", [name |-> name], add_track(current_song, name),
             IF current_song = NoSong THEN "add_track" ELSE "")

AddMeasureHeader ==
    Call("add_measure_header", <<>>, add_measure_header(current_song),
         IF current_song = NoSong THEN "create_new_song" ELSE "")

AddNote ==
    \E track_index \in TrackIndexes, measure_index \in MeasureIndexes,
       string \in StringNumbers, fret \in Frets, duration \in Durations,
       voice_index \in VoiceIndexes, beat_index \in BeatIndexes :
        Call("add_note",
             [track_index |-> track_index, measure_index |-> measure_index,
              string |-> string, fret |-> fret, duration |-> duration,
              voice_index |-> voice_index, beat_index |-> beat_index],
             add_note(current_song, track_index, measure_index, string, fret,
                      duration, voice_index, beat_index),
             "")

AddNoteWithEffects ==
    \E track_index \in EffectTracks, measure_index \in EffectMeasures,
       string \in StringNumbers, fret \in Frets, duration \in Durations,
       voice_index \in VoiceIndexes, beat_index \in BeatIndexes,
       flags \in EffectFlags :
        Call("add_note_with_effects",
             [track_index |-> track_index, measure_index |-> measure_index,
              string |-> string, fret |-> fret, duration |-> duration,
              voice_index |-> voice_index, beat_index |-> beat_index,
              flags |-> flags],
             add_note_with_effects(current_song, track_index, measure_index,
                                   string, fret, duration, voice_index,
                                   beat_index, flags),
             "")

AddNoteSimple ==
    \E track_index \in TrackIndexes, measure_index \in MeasureIndexes,
       beat_index \in BeatIndexes, string \in StringNumbers, fret \in Frets,
       duration \in Durations :
        Call("add_note_simple",
             [track_index |-> track_index, measure_index |-> measure_index,
              beat_index |-> beat_index, string |-> string, fret |-> fret,
              duration |-> duration],
             add_note_simple(current_song, track_index, measure_index,
                             beat_index, string, fret, duration),
             IF current_song = NoSong THEN "create_new_song" ELSE "")

TransposeTrack ==
    \E track_index \in TrackIndexes, semitones \in Semitones :
        Call("transpose_track",
             [track_index |-> track_index, semitones |-> semitones],
             transpose_track(current_song, track_index, semitones), "")

Names == {None, Some("Lead")}
Instruments == {None, Some(30), Some(128)}
Volumes == {None, Some(80), Some(101)}
Pans == {None, Some(10), Some(64)}
HeaderIndexes == (0 - 1)..2
Numerators == {3}
Denominators == {8}
Keys == {2}
Tempos == {100}

SetTrackProperties ==
    \E track_index \in EditedTracks, name \in Names, instrument \in Instruments,
       volume \in Volumes, pan \in Pans :
        Call("set_track_properties",
             [track_index |-> track_index, name |-> name,
              instrument |-> instrument, volume |-> volume, pan |-> pan],
             set_track_properties(current_song, track_index, name, instrument,
                                  volume, pan),
             "")

SetTimeSignature ==
    \E measure_index \in HeaderIndexes, numerator \in Numerators,
       denominator \in Denominators :
        Call("set_time_signature",
             [measure_index |-> measure_index, numerator |-> numerator,
              denominator |-> denominator],
             set_time_signature(current_song, measure_index, numerator,
                                denominator),
             "")

SetKeySignature ==
    \E measure_index \in HeaderIndexes, key \in Keys :
        Call("set_key_signature", [measure_index |-> measure_index, key |-> key],
             set_key_signature(current_song, measure_index, key), "")

SetTempo ==
    \E measure_index \in HeaderIndexes, tempo \in Tempos :
        Call("set_tempo", [measure_index |-> measure_index, tempo |-> tempo],
             set_tempo(current_song, measure_index, tempo), "")

Next ==
    \/ CreateNewSong
    \/ LoadFile
    \/ AddTrack
    \/ AddMeasureHeader
    \/ AddNote
    \/ AddNoteWithEffects
    \/ AddNoteSimple
    \/ TransposeTrack
    \/ Respond

Spec == Init /\ [][Next]_vars

(***************************************************************************)
(* The same controller driven by the operations that build tracks and set  *)
(* their properties.                                                       *)
(***************************************************************************)
NextTrack ==
    \/ CreateNewSong
    \/ LoadFile
    \/ AddTrack
    \/ SetTrackProperties
    \/ Respond

SpecTrack == Init /\ [][NextTrack]_vars

(***************************************************************************)
(* The same controller driven by the operations that build measure headers *)
(* and set their properties.                                               *)
(***************************************************************************)
NextMeasure ==
    \/ CreateNewSong
    \/ LoadFile
    \/ AddTrack
    \/ AddMeasureHeader
    \/ SetTimeSignature
    \/ SetKeySignature
    \/ SetTempo
    \/ Respond

SpecMeasure == Init /\ [][NextMeasure]_vars

(***************************************************************************)
(* The read operations.  A returned list is a sequence and a returned      *)
(* mapping a record; the song is left as it is.                            *)
(*                                                                         *)
(* SongOperationsController.get_song_info: _ensure_song_loaded raises      *)
(* ValueError when no song is held.  Of the returned fields the model      *)
(* keeps those of the song it holds: title, artist and the track count.    *)
(***************************************************************************)
_ensure_song_loaded(song) == song # NoSong

get_song_info(song) ==
    IF ~_ensure_song_loaded(song) THEN Raise(song)
    ELSE Result(song, [title |-> song.title, artist |-> song.artist,
                       track_count |-> Len(song.tracks)])

(***************************************************************************)
(* TrackOperationsController.get_tracks: the tracks that are not           *)
(* percussion tracks, each with its index in the song.                     *)
(***************************************************************************)
RECURSIVE TrackInfos(_, _)
TrackInfos(tracks, i) ==
    IF i > Len(tracks) THEN <<>>
    ELSE (IF tracks[i].isPercussionTrack THEN <<>>
          ELSE <<[name |-> tracks[i].name, index |-> i - 1,
                  strings |-> Len(tracks[i].strings),
                  instrument |-> tracks[i].instrument,
                  is_percussion |-> tracks[i].isPercussionTrack]>>)
         \o TrackInfos(tracks, i + 1)

get_tracks(song) ==
    IF song = NoSong THEN Result(song, <<>>)
    ELSE Result(song, TrackInfos(song.tracks, 1))

(***************************************************************************)
(* SongOperationsController.get_song_statistics                            *)
(***************************************************************************)
TrackBeats(track) ==
    BeatsOf(ConcatAll([m \in 1..Len(track.measures) |->
                          track.measures[m].voices]))

TrackStats(track) ==
    [name |-> track.name, string_count |-> Len(track.strings),
     measure_count |-> Len(track.measures),
     note_count |-> Len(NotesOf(TrackBeats(track))),
     beat_count |-> Len(TrackBeats(track))]

get_song_statistics(song) ==
    IF song = NoSong THEN Result(song, [error |-> "No song loaded"])
    ELSE Result(song,
           [title |-> song.title, track_count |-> Len(song.tracks),
            measure_count |-> Len(song.measureHeaders),
            tracks |-> Tuple([t \in 1..Len(song.tracks) |->
                                 TrackStats(song.tracks[t])]),
            total_notes |-> Len(NotesOf(BeatsOf(VoicesOf(song)))),
            total_beats |-> Len(BeatsOf(VoicesOf(song)))])

(***************************************************************************)
(* SongOperationsController.get_song_structure.  The songs it is called on *)
(* carry no beat text, no header marker, double bar or direction and no    *)
(* repeat group, so that on a song the three lists are empty.              *)
(***************************************************************************)
get_song_structure(song) ==
    IF song = NoSong THEN Result(song, <<>>)
    ELSE Result(song, [sections |-> <<>>, repeat_groups |-> <<>>,
                       markers |-> <<>>])

GetSongInfo ==
    Call("get_song_info", <<>>, get_song_info(current_song), "")

GetTracks ==
    Call("get_tracks", <<>>, get_tracks(current_song), "")

GetTrackNotes ==
    \E track_index \in TrackIndexes :
        Call("get_track_notes", [track_index |-> track_index],
             Result(current_song, get_track_notes(current_song, track_index)),
             "")

GetSongStatistics ==
    Call("get_song_statistics", <<>>, get_song_statistics(current_song), "")

GetSongStructure ==
    Call("get_song_structure", <<>>, get_song_structure(current_song), "")

(***************************************************************************)
(* The same controller driven by the operations that build a song and the  *)
(* operations that read it.                                                *)
(***************************************************************************)
NextRead ==
    \/ CreateNewSong
    \/ LoadFile
    \/ AddTrack
    \/ AddNoteSimple
    \/ GetSongInfo
    \/ GetTracks
    \/ GetTrackNotes
    \/ GetSongStatistics
    \/ GetSongStructure
    \/ Respond

SpecRead == Init /\ [][NextRead]_vars

(***************************************************************************)
(* utils/midi_export.py, convert_to_midi.  The file written is the list of *)
(* its tracks, a track the list of its messages; the time of a message is  *)
(* the number of ticks since the message before it in the track.           *)
(***************************************************************************)
Written(song, ret, file) ==
    [song |-> song, ret |-> ret, raised |-> FALSE, written |-> file]

NoFile == <<"no file">>

ticks_per_beat == 480

tick_duration(duration) ==
    IF duration.isDotted
    THEN (((4 * ticks_per_beat) \div duration.value) * 3) \div 2
    ELSE (4 * ticks_per_beat) \div duration.value

string_tuning(strings, number) ==
    IF StringsNumbered(strings, number) = {} THEN 0
    ELSE FirstString(strings, number).value

NoteMessages(track, beat, note) ==
    <<[type |-> "note_on",
       note |-> string_tuning(track.strings, note.string) + note.value,
       velocity |-> IF 64 + note.velocity > 127 THEN 127
                    ELSE 64 + note.velocity,
       time |-> 0],
      [type |-> "note_off",
       note |-> string_tuning(track.strings, note.string) + note.value,
       velocity |-> 0,
       time |-> tick_duration(beat.duration)]>>

BeatMessages(track, beat) ==
    IF beat.notes = <<>> THEN <<>>
    ELSE ConcatAll(Tuple([k \in 1..Len(beat.notes) |->
                            NoteMessages(track, beat, beat.notes[k])]))

MidiTrack(track) ==
    <<[type |-> "track_name", name |-> track.name],
      [type |-> "program_change", program |-> track.instrument]>>
    \o ConcatAll(Tuple([b \in 1..Len(TrackBeats(track)) |->
                          BeatMessages(track, TrackBeats(track)[b])]))

(* an export that keeps the percussion tracks *)
MidiTracksAll(tracks) ==
    Tuple([t \in 1..Len(tracks) |-> MidiTrack(tracks[t])])

RECURSIVE MidiTracks(_)
MidiTracks(tracks) ==
    IF tracks = <<>> THEN <<>>
    ELSE (IF Head(tracks).isPercussionTrack THEN <<>>
          ELSE <<MidiTrack(Head(tracks))>>)
         \o MidiTracks(Tail(tracks))

(* int(4 * ticks_per_beat / duration_value) raises ZeroDivisionError when  *)
(* a beat that has notes has the duration value 0; the except clause then  *)
(* returns False and no file is saved.                                     *)
DividesByZero(song) ==
    \E t \in 1..Len(song.tracks) :
        /\ ~song.tracks[t].isPercussionTrack
        /\ \E b \in 1..Len(TrackBeats(song.tracks[t])) :
            /\ TrackBeats(song.tracks[t])[b].notes # <<>>
            /\ TrackBeats(song.tracks[t])[b].duration.value = 0

convert_to_midi(song) ==
    IF DividesByZero(song) THEN Written(song, FALSE, NoFile)
    ELSE Written(song, TRUE, MidiTracks(song.tracks))

(***************************************************************************)
(* utils/json_export.py, json_to_song.  A tree is a mapping from keys to   *)
(* values, d.get(key, default) the value under the key or the default.     *)
(* The metadata and channel fields the songs of the model do not keep      *)
(* (album, chorus, ...) and the type of a note are left out.               *)
(***************************************************************************)
EmptyDict == <<>>

Get(d, key, default) == IF key \in DOMAIN d THEN d[key] ELSE default

NoHeader == 0 - 1

EffectOf(effect_data) ==
    {f \in {"isBend", "isHarmonic", "isGhostNote", "isSlide", "isVibrato"} :
        Get(effect_data,
            IF f = "isBend" THEN "bend"
            ELSE IF f = "isHarmonic" THEN "harmonic"
            ELSE IF f = "isGhostNote" THEN "ghost"
            ELSE IF f = "isSlide" THEN "slide"
            ELSE "vibrato",
            FALSE)}

(* a decoded note that keeps the values of Note(beat) for missing fields *)
NoteOfJsonAsMade(note_data) ==
    [NewNote EXCEPT
       !.string = Get(note_data, "string", @),
       !.value = Get(note_data, "value", @),
       !.velocity = Get(note_data, "velocity", @),
       !.isTiedNote = Get(note_data, "is_tied", @)]

NoteOfJson(note_data) ==
    [NewNote EXCEPT
       !.string = Get(note_data, "string", 1),
       !.value = Get(note_data, "value", 0),
       !.velocity = Get(note_data, "velocity", 100),
       !.isTiedNote = Get(note_data, "is_tied", FALSE),
       !.effect = IF Get(note_data, "effect", EmptyDict) = EmptyDict THEN @
                  ELSE EffectOf(Get(note_data, "effect", EmptyDict))]

BeatOfJson(beat_data) ==
    [NewBeat EXCEPT
       !.duration =
          [NewDuration EXCEPT
             !.value = Get(Get(beat_data, "duration", EmptyDict), "value", 4),
             !.isDotted =
                Get(Get(beat_data, "duration", EmptyDict), "is_dotted", FALSE),
             !.isRest =
                Get(Get(beat_data, "duration", EmptyDict), "is_rest", FALSE)],
       !.notes =
          Tuple([k \in 1..Len(Get(beat_data, "notes", <<>>)) |->
                   NoteOfJson(Get(beat_data, "notes", <<>>)[k])])]

VoiceOfJson(voice_data) ==
    [NewVoice EXCEPT
       !.beats =
          Tuple([b \in 1..Len(Get(voice_data, "beats", <<>>)) |->
                   BeatOfJson(Get(voice_data, "beats", <<>>)[b])])]

(* The header of a decoded measure.  Measure k of the first track gets the *)
(* header made for it; a measure of a later track gets the header at its   *)
(* "index" (0 when it has none) when that index is below the number of     *)
(* headers, and keeps the header of Measure(track) otherwise.              *)
HeaderOfJson(measure_data, first, k, headers) ==
    IF first THEN k - 1
    ELSE IF Get(measure_data, "index", 0) < headers
    THEN (IF Get(measure_data, "index", 0) >= 0
          THEN Get(measure_data, "index", 0)
          ELSE headers + Get(measure_data, "index", 0))
    ELSE NoHeader

MeasureOfJson(measure_data, first, k, headers) ==
    [NewMeasure(HeaderOfJson(measure_data, first, k, headers)) EXCEPT
       !.voices =
          Tuple([v \in 1..Len(Get(measure_data, "voices", <<>>)) |->
                   VoiceOfJson(Get(measure_data, "voices", <<>>)[v])])]

TrackOfJson(track_data, first, headers) ==
    [NewTrack EXCEPT
       !.name = Get(track_data, "name", "Track"),
       !.isPercussionTrack = Get(track_data, "is_percussion", FALSE),
       !.instrument = Get(Get(track_data, "channel", EmptyDict), "instrument", 0),
       !.volume = Get(Get(track_data, "channel", EmptyDict), "volume", 100),
       !.balance = Get(Get(track_data, "channel", EmptyDict), "balance", 0),
       !.strings =
          Tuple([i \in 1..Len(Get(track_data, "strings", <<>>)) |->
                   GuitarString(Get(Get(track_data, "strings", <<>>)[i], "number", 1),
                                Get(Get(track_data, "strings", <<>>)[i], "value", 64))]),
       !.measures =
          Tuple([k \in 1..Len(Get(track_data, "measures", <<>>)) |->
                   MeasureOfJson(Get(track_data, "measures", <<>>)[k],
                                 first, k, headers)])]

(* The headers of the decoded song: one for each measure of the first      *)
(* track of the tree.                                                      *)
HeadersOfJson(tracks_data) ==
    IF tracks_data = <<>> THEN 0
    ELSE Len(Get(tracks_data[1], "measures", <<>>))

(* song.measureHeaders[measure_index] raises IndexError for an index below *)
(* minus the number of headers; json_to_song then returns None.            *)
HeaderIndexError(tracks_data) ==
    \E t \in 2..Len(tracks_data) :
    \E k \in 1..Len(Get(tracks_data[t], "measures", <<>>)) :
        Get(Get(tracks_data[t], "measures", <<>>)[k], "index", 0)
            < 0 - HeadersOfJson(tracks_data)

json_to_song(json_data) ==
    IF HeaderIndexError(Get(json_data, "tracks", <<>>)) THEN NoSong
    ELSE
    [NewSong EXCEPT
       !.title = Get(Get(json_data, "metadata", EmptyDict), "title", ""),
       !.artist = Get(Get(json_data, "metadata", EmptyDict), "artist", ""),
       !.tempo = Get(Get(json_data, "metadata", EmptyDict), "tempo", 120),
       !.measureHeaders =
          SeqOf(HeadersOfJson(Get(json_data, "tracks", <<>>)), NewMeasureHeader),
       !.tracks =
          Tuple([t \in 1..Len(Get(json_data, "tracks", <<>>)) |->
                   TrackOfJson(Get(json_data, "tracks", <<>>)[t], t = 1,
                               HeadersOfJson(Get(json_data, "tracks", <<>>)))])]

(***************************************************************************)
(* The JSON files given to import_from_json and the trees json.load reads  *)
(* from them: a band of three tracks with a percussion track in the        *)
(* middle, a second track longer than the first, measures without "index", *)
(* entries without any field, entries with some of their fields, an empty  *)
(* tree, a measure index below the first header, a note tied to the note   *)
(* before it on the same string, beats whose duration value is not a power *)
(* of two, and a file that is not JSON.                                    *)
(***************************************************************************)
JsonFiles ==
    {"band.json", "uneven.json", "noindex.json", "sparse.json",
     "partial.json", "empty.json", "badindex.json", "tie.json",
     "eleventh.json", "broken.json"}

Readable(file_path) == file_path # "broken.json"

BandTree ==
    [metadata |-> [title |-> "Band", artist |-> "Cy", tempo |-> 100],
     tracks |-> <<
        [name |-> "Rhythm", index |-> 0, is_percussion |-> FALSE,
         channel |-> [instrument |-> 29, volume |-> 90, balance |-> 5],
         strings |-> <<[number |-> 1, value |-> 64]>>,
         measures |-> <<[index |-> 0, voices |-> <<>>]>>],
        [name |-> "Drums", index |-> 1, is_percussion |-> TRUE,
         measures |-> <<
            [index |-> 0,
             voices |-> <<
                [index |-> 0,
                 beats |-> <<
                    [index |-> 0,
                     duration |-> [value |-> 8, is_dotted |-> TRUE,
                                   is_rest |-> FALSE],
                     notes |-> <<
                        [string |-> 2, value |-> 3, velocity |-> 80,
                         is_tied |-> TRUE,
                         effect |-> [bend |-> TRUE, slide |-> FALSE]]>>]>>]>>]>>],
        [name |-> "Lead", index |-> 2, is_percussion |-> FALSE,
         measures |-> <<[index |-> 0]>>]>>]

UnevenTree ==
    [tracks |-> <<
        [name |-> "One", measures |-> <<[index |-> 0]>>],
        [name |-> "Two", measures |-> <<[index |-> 0], [index |-> 1]>>]>>]

NoIndexTree ==
    [tracks |-> <<
        [measures |-> <<EmptyDict, [voices |-> <<>>]>>],
        [measures |-> <<EmptyDict, [voices |-> <<>>]>>]>>]

SparseTree ==
    [tracks |-> <<
        [measures |-> <<
            [voices |-> <<[beats |-> <<[notes |-> <<EmptyDict>>]>>]>>]>>],
        EmptyDict>>]

PartialTree ==
    [metadata |-> [artist |-> "Di"],
     tracks |-> <<
        [name |-> "Solo", channel |-> [volume |-> 70],
         measures |-> <<
            [voices |-> <<
                [beats |-> <<
                    [duration |-> [is_dotted |-> TRUE],
                     notes |-> <<[value |-> 2, is_tied |-> TRUE]>>]>>]>>]>>]>>]

BadIndexTree ==
    [tracks |-> <<
        [measures |-> <<EmptyDict>>],
        [measures |-> <<[index |-> 0 - 2]>>]>>]

TieTree ==
    [tracks |-> <<
        [name |-> "Held", strings |-> <<[number |-> 1, value |-> 64]>>,
         measures |-> <<
            [voices |-> <<
                [beats |-> <<
                    [notes |-> <<[string |-> 1, value |-> 3]>>],
                    [notes |-> <<[string |-> 1, value |-> 0,
                                  is_tied |-> TRUE]>>]>>]>>]>>]>>]

EleventhTree ==
    [tracks |-> <<
        [name |-> "Odd", strings |-> <<[number |-> 1, value |-> 64]>>,
         measures |-> <<
            [voices |-> <<
                [beats |-> <<
                    [duration |-> [value |-> 11],
                     notes |-> <<[string |-> 1, value |-> 3]>>],
                    [duration |-> [value |-> 3, is_dotted |-> TRUE],
                     notes |-> <<[string |-> 1, value |-> 2]>>]>>]>>]>>]>>]

JsonTree(file_path) ==
    IF file_path = "band.json" THEN BandTree
    ELSE IF file_path = "uneven.json" THEN UnevenTree
    ELSE IF file_path = "noindex.json" THEN NoIndexTree
    ELSE IF file_path = "sparse.json" THEN SparseTree
    ELSE IF file_path = "partial.json" THEN PartialTree
    ELSE IF file_path = "badindex.json" THEN BadIndexTree
    ELSE IF file_path = "tie.json" THEN TieTree
    ELSE IF file_path = "eleventh.json" THEN EleventhTree
    ELSE EmptyDict

(***************************************************************************)
(* utils/json_export.py, import_from_json: None when the file cannot be    *)
(* read as JSON or json_to_song returns None.                              *)
(***************************************************************************)
json_import_from_json(file_path) ==
    IF ~Readable(file_path) THEN NoSong
    ELSE json_to_song(JsonTree(file_path))

(***************************************************************************)
(* FileOperationsController.import_from_json                               *)
(***************************************************************************)
import_from_json(song, file_path) ==
    IF json_import_from_json(file_path) # NoSong
    THEN Result(json_import_from_json(file_path), TRUE)
    ELSE Result(song, FALSE)

(***************************************************************************)
(* utils/json_export.py, song_to_json.  The entry of a note reads          *)
(* gp.models.NoteType.rest, and the module defines no name gp: the first   *)
(* note of the song raises NameError.                                      *)
(***************************************************************************)
NoteToJson(note) ==
    [string |-> note.string, value |-> note.value,
     velocity |-> note.velocity, is_tied |-> note.isTiedNote]

BeatToJson(beat, beat_index) ==
    [index |-> beat_index,
     duration |-> [value |-> beat.duration.value,
                   is_dotted |-> beat.duration.isDotted,
                   is_rest |-> beat.duration.isRest],
     notes |-> Tuple([k \in 1..Len(beat.notes) |-> NoteToJson(beat.notes[k])])]

VoiceToJson(voice, voice_index) ==
    [index |-> voice_index,
     beats |-> Tuple([b \in 1..Len(voice.beats) |->
                        BeatToJson(voice.beats[b], b - 1)])]

MeasureToJson(measure, measure_index) ==
    [index |-> measure_index,
     voices |-> Tuple([v \in 1..Len(measure.voices) |->
                         VoiceToJson(measure.voices[v], v - 1)])]

TrackToJson(track, track_index) ==
    [name |-> track.name, index |-> track_index,
     is_percussion |-> track.isPercussionTrack,
     channel |-> [instrument |-> track.instrument, volume |-> track.volume,
                  balance |-> track.balance],
     strings |-> Tuple([i \in 1..Len(track.strings) |->
                          [number |-> track.strings[i].number,
                           value |-> track.strings[i].value]]),
     measures |-> Tuple([m \in 1..Len(track.measures) |->
                           MeasureToJson(track.measures[m], m - 1)])]

NameErrorOnNote(song) == NotesOf(BeatsOf(VoicesOf(song))) # <<>>

song_to_json(song) ==
    IF song = NoSong THEN EmptyDict
    ELSE [metadata |-> [title |-> song.title, artist |-> song.artist,
                        tempo |-> song.tempo],
          tracks |-> Tuple([t \in 1..Len(song.tracks) |->
                              TrackToJson(song.tracks[t], t - 1)])]

(***************************************************************************)
(* utils/json_export.py, export_to_json: the except clause turns the       *)
(* error of song_to_json into False, and no file is written.               *)
(***************************************************************************)
json_export_to_json(song) ==
    IF song # NoSong /\ NameErrorOnNote(song) THEN Written(song, FALSE, NoFile)
    ELSE Written(song, TRUE, song_to_json(song))

(***************************************************************************)
(* FileOperationsController.export_to_json                                 *)
(***************************************************************************)
export_to_json(song, file_path) ==
    IF song = NoSong THEN Written(song, FALSE, NoFile)
    ELSE json_export_to_json(song)

(***************************************************************************)
(* FileOperationsController.export_to_midi                                 *)
(***************************************************************************)
export_to_midi(song, file_path) ==
    IF song = NoSong THEN Written(song, FALSE, NoFile)
    ELSE convert_to_midi(song)

MidiPaths == {"out.mid"}

ExportToMidi ==
    \E file_path \in MidiPaths :
        Call("export_to_midi", [file_path |-> file_path],
             export_to_midi(current_song, file_path), "")

JsonPaths == {"out.json"}

ExportToJson ==
    \E file_path \in JsonPaths :
        Call("export_to_json", [file_path |-> file_path],
             export_to_json(current_song, file_path), "")

ImportFromJson ==
    \E file_path \in JsonFiles :
        Call("import_from_json", [file_path |-> file_path],
             import_from_json(current_song, file_path),
             IF json_import_from_json(file_path) # NoSong
             THEN "import_from_json" ELSE "")

(***************************************************************************)
(* The same controller driven by the operations that build or load a song  *)
(* and the operations that export it.                                      *)
(***************************************************************************)
NextExport ==
    \/ CreateNewSong
    \/ LoadFile
    \/ AddTrack
    \/ AddNoteSimple
    \/ ImportFromJson
    \/ ExportToMidi
    \/ ExportToJson
    \/ Respond

SpecExport == Init /\ [][NextExport]_vars

(***************************************************************************)
(* ChordOperationsController.add_chord: the chord built from chord_data is *)
(* set on the effect of the addressed beat of the first voice.             *)
(***************************************************************************)
NewChord == [name |-> ""]

ChordOf(chord_data) ==
    IF "name" \in DOMAIN chord_data
    THEN [NewChord EXCEPT !.name = chord_data.name]
    ELSE NewChord

WithChord(beat, chord) ==
    [k \in DOMAIN beat \cup {"chord"} |-> IF k = "chord" THEN chord ELSE beat[k]]

add_chord(song, track_index, measure_index, beat_index, chord_data) ==
    IF song = NoSong THEN Result(song, FALSE)
    ELSE IF track_index < 0 \/ track_index >= Len(song.tracks)
    THEN Result(song, FALSE)
    ELSE IF measure_index < 0
            \/ measure_index >= Len(song.tracks[track_index + 1].measures)
    THEN Result(song, FALSE)
    ELSE IF Len(song.tracks[track_index + 1].measures[measure_index + 1].voices) = 0
    THEN Result(song, FALSE)
    ELSE IF beat_index < 0
            \/ beat_index >= Len(song.tracks[track_index + 1].measures[measure_index + 1].voices[1].beats)
    THEN Result(song, FALSE)
    ELSE Result([song EXCEPT !.tracks[track_index + 1].measures[measure_index + 1].voices[1].beats[beat_index + 1] = WithChord(@, ChordOf(chord_data))], TRUE)

ChordDatas == {[name |-> "Am"], <<>>}

AddChord ==
    \E track_index \in {0 - 1, 0, 1}, measure_index \in {0, 1}, beat_index \in {0, 1}, chord_data \in ChordDatas :
        Call("add_chord",
             [track_index |-> track_index, measure_index |-> measure_index,
              beat_index |-> beat_index, chord_data |-> chord_data],
             IF HandlerOf("add_chord") = NoHandler THEN Raise(current_song)
             ELSE add_chord(current_song, track_index, measure_index, beat_index, chord_data),
             "")

NextChord ==
    \/ CreateNewSong
    \/ LoadFile
    \/ AddTrack
    \/ AddNoteSimple
    \/ AddChord
    \/ Respond

SpecChord == Init /\ [][NextChord]_vars

(***************************************************************************)
(* The same controller driven by the operations that compute the pitch of  *)
(* a note: transpose_track and export_to_midi.                             *)
(***************************************************************************)
NextPitch ==
    \/ CreateNewSong
    \/ LoadFile
    \/ AddNoteSimple
    \/ TransposeTrack
    \/ ExportToMidi
    \/ Respond

SpecPitch == Init /\ [][NextPitch]_vars

(***************************************************************************)
(* SongOperationsController.add_coda and add_double_bar: the only test on  *)
(* the index is "measure_index < len(measureHeaders)"; an IndexError is    *)
(* caught and False returned.                                              *)
(***************************************************************************)
MarkHeader(song, measure_index, flag) ==
    IF song = NoSong THEN Result(song, FALSE)
    ELSE IF measure_index < Len(song.measureHeaders)
    THEN IF ~PyIndexOK(song.measureHeaders, measure_index)
         THEN Result(song, FALSE)
         ELSE Result([song EXCEPT
                        !.measureHeaders[PyPos(song.measureHeaders, measure_index)]
                            = SetAttr(@, flag, TRUE)],
                     TRUE)
    ELSE Result(song, FALSE)

add_coda(song, measure_index) == MarkHeader(song, measure_index, "isCoda")

add_double_bar(song, measure_index) ==
    MarkHeader(song, measure_index, "isDoubleBar")

AddCoda ==
    \E measure_index \in HeaderIndexes :
        Call("add_coda", [measure_index |-> measure_index],
             add_coda(current_song, measure_index), "")

AddDoubleBar ==
    \E measure_index \in HeaderIndexes :
        Call("add_double_bar", [measure_index |-> measure_index],
             add_double_bar(current_song, measure_index), "")

(***************************************************************************)
(* The same controller driven by the operations that address a measure     *)
(* header by its index.                                                    *)
(***************************************************************************)
NextHeader ==
    \/ CreateNewSong
    \/ LoadFile
    \/ AddMeasureHeader
    \/ SetTimeSignature
    \/ SetKeySignature
    \/ SetTempo
    \/ AddCoda
    \/ AddDoubleBar
    \/ Respond

SpecHeader == Init /\ [][NextHeader]_vars

(***************************************************************************)
(* SongOperationsController.add_repeat_group.  A repeat group is held in   *)
(* the list of the song; a header refers to its group by the place of the  *)
(* group in that list (NoGroup: none).  The group is appended first; then  *)
(* each header of start_measure..end_measure that lies below the end of    *)
(* the header list gets the group, the first one the open flag and the     *)
(* repeat count, the last one the repeat count and the greatest ending.    *)
(* An IndexError ends the loop and returns False.                          *)
(***************************************************************************)
NewRepeatGroup == [measureHeaders |-> <<>>, isClosed |-> FALSE]

NoGroup == 0

NoRepeatClose == 0

NoAlternative == 0

(* "if endings": the optional list is given and not empty *)
Truthy(opt) == opt # None /\ Value(opt) # <<>>

max(list) == CHOOSE x \in {list[i] : i \in 1..Len(list)} : \A i \in 1..Len(list) : list[i] <= x

RepeatHeader(header, i, start_measure, end_measure, group, repeat_count, endings) ==
    [k \in DOMAIN header \cup {"repeatGroup"}
             \cup (IF i = start_measure THEN {"isRepeatOpen", "repeatClose"} ELSE {})
             \cup (IF i = end_measure THEN {"repeatClose"} ELSE {})
             \cup (IF Truthy(endings) /\ i = end_measure THEN {"repeatAlternative"} ELSE {}) |->
        IF k = "repeatGroup" THEN group
        ELSE IF k = "isRepeatOpen" /\ i = start_measure THEN TRUE
        ELSE IF k = "repeatClose" /\ (i = start_measure \/ i = end_measure) THEN repeat_count
        ELSE IF k = "repeatAlternative" /\ Truthy(endings) /\ i = end_measure THEN max(Value(endings))
        ELSE header[k]]

RECURSIVE RepeatLoop(_, _, _, _, _, _, _)
RepeatLoop(song, i, start_measure, end_measure, group, repeat_count, endings) ==
    IF i > end_measure THEN Result(song, TRUE)
    ELSE IF i < Len(song.measureHeaders)
    THEN IF ~PyIndexOK(song.measureHeaders, i) THEN Result(song, FALSE)
         ELSE RepeatLoop([song EXCEPT !.measureHeaders[PyPos(song.measureHeaders, i)] = RepeatHeader(@, i, start_measure, end_measure, group, repeat_count, endings)], i + 1, start_measure, end_measure, group, repeat_count, endings)
    ELSE RepeatLoop(song, i + 1, start_measure, end_measure, group, repeat_count, endings)

add_repeat_group(song, start_measure, end_measure, repeat_type, repeat_count, endings) ==
    IF song = NoSong THEN Result(song, FALSE)
    ELSE RepeatLoop(SetAttr(song, "repeatGroups", Append(GetAttr(song, "repeatGroups", <<>>), NewRepeatGroup)), start_measure, start_measure, end_measure, Len(GetAttr(song, "repeatGroups", <<>>)) + 1, repeat_count, endings)

(***************************************************************************)
(* SongOperationsController.get_repeat_groups: the measures of a group are *)
(* the indices of the headers that refer to it; the repeat count and the   *)
(* endings are read from the headers the group itself lists.               *)
(***************************************************************************)
GroupMeasures(song, group) ==
    SelectSeq(Tuple([i \in 1..Len(song.measureHeaders) |-> i - 1]),
              LAMBDA i : GetAttr(song.measureHeaders[i + 1], "repeatGroup", NoGroup) = group)

Closing(headers) ==
    SelectSeq(headers, LAMBDA header : GetAttr(header, "repeatClose", NoRepeatClose) > 0)

GroupInfo(song, group) ==
    [type |-> "normal",
     repeat_count |->
        IF Closing(song.repeatGroups[group].measureHeaders) = <<>> THEN 0
        ELSE Closing(song.repeatGroups[group].measureHeaders)[1].repeatClose,
     endings |->
        Tuple([h \in 1..Len(SelectSeq(song.repeatGroups[group].measureHeaders, LAMBDA header : GetAttr(header, "repeatAlternative", NoAlternative) > 0)) |->
                 SelectSeq(song.repeatGroups[group].measureHeaders, LAMBDA header : GetAttr(header, "repeatAlternative", NoAlternative) > 0)[h].repeatAlternative]),
     measures |-> GroupMeasures(song, group),
     is_closed |-> song.repeatGroups[group].isClosed]

get_repeat_groups(song) ==
    IF song = NoSong THEN Result(song, <<>>)
    ELSE Result(song, Tuple([g \in 1..Len(GetAttr(song, "repeatGroups", <<>>)) |-> GroupInfo(song, g)]))

StartMeasures == 0..2

EndMeasures == 0..3

RepeatCounts == {2, 3}

Endings == {None, Some(<<1, 2>>)}

AddRepeatGroup ==
    \E start_measure \in StartMeasures, end_measure \in EndMeasures, repeat_count \in RepeatCounts, endings \in Endings :
        Call("add_repeat_group",
             [start_measure |-> start_measure, end_measure |-> end_measure,
              repeat_type |-> "normal", repeat_count |-> repeat_count,
              endings |-> endings],
             add_repeat_group(current_song, start_measure, end_measure,
                              "normal", repeat_count, endings),
             "")

GetRepeatGroups ==
    Call("get_repeat_groups", <<>>, get_repeat_groups(current_song), "")

(***************************************************************************)
(* The same controller driven by the operations on repeat groups.          *)
(***************************************************************************)
NextRepeat ==
    \/ CreateNewSong
    \/ LoadFile
    \/ AddMeasureHeader
    \/ AddRepeatGroup
    \/ GetRepeatGroups
    \/ Respond

SpecRepeat == Init /\ [][NextRepeat]_vars

(***************************************************************************)
(* GuitarProController.__getattr__, the method it returns, step by step:   *)
(* the handler that serves the operation takes the controller's song, the  *)
(* method runs on the song the handler holds (r is its outcome), and when  *)
(* it returns the controller takes the handler's song.  When it raises the *)
(* controller keeps its object and the handler what it ended with.  The    *)
(* call in progress also records the song the handler held when it was     *)
(* called (handler_had).                                                   *)
(***************************************************************************)
(* a method that runs on the song its handler held, without the hand-over *)
HandedStale(op) == handler_song

Handed(op) == [handler_song EXCEPT ![HandlerOf(op)] = current_song]

Dispatch(op, args, r, made) ==
    /\ last = Idle
    /\ HandlerOf(op) # NoHandler
    /\ WithinBounds(r.song)
    /\ current_song' =
          IF r.raised /\ current_song = NoSong THEN NoSong ELSE r.song
    /\ origin' =
          IF r.raised /\ current_song = NoSong THEN origin
          ELSE IF made # "" THEN made ELSE origin
    /\ last' = [op |-> op, args |-> args, ret |-> r.ret,
                raised |-> r.raised,
                handler_had |-> handler_song[HandlerOf(op)]]
    /\ before' = current_song
    /\ earlier' = earlier
    /\ handler_song' =
          [Handed(op) EXCEPT ![HandlerOf(op)] =
              IF "held" \in DOMAIN r THEN r.held ELSE r.song]

DispatchCreateNewSong ==
    \E title \in Titles, artist \in Artists :
        Dispatch("create_new_song", [title |-> title, artist |-> artist],
                 create_new_song(Handed("create_new_song")[HandlerOf("create_new_song")],
                                 title, artist),
                 "create_new_song")

DispatchLoadFile ==
    \E file_path \in Files :
        Dispatch("load_file", [file_path |-> file_path],
                 load_file(Handed("load_file")[HandlerOf("load_file")], file_path),
                 IF Decodes(file_path) /\ Inspects(file_path)
                 THEN "load_file" ELSE "")

DispatchImportFromJson ==
    \E file_path \in JsonFiles :
        Dispatch("import_from_json", [file_path |-> file_path],
                 import_from_json(Handed("import_from_json")[HandlerOf("import_from_json")],
                                  file_path),
                 IF json_import_from_json(file_path) # NoSong
                 THEN "import_from_json" ELSE "")

DispatchAddTrack ==
    \E name \in TrackNames :
        Dispatch("add_track", [name |-> name],
                 add_track(Handed("add_track")[HandlerOf("add_track")], name),
                 IF current_song = NoSong THEN "add_track" ELSE "")

DispatchGetTracks ==
    Dispatch("get_tracks", <<>>,
             get_tracks(Handed("get_tracks")[HandlerOf("get_tracks")]), "")

NextFacade ==
    \/ DispatchCreateNewSong
    \/ DispatchLoadFile
    \/ DispatchImportFromJson
    \/ DispatchAddTrack
    \/ DispatchGetTracks
    \/ Respond

SpecFacade == Init /\ [][NextFacade]_vars

(***************************************************************************)
(* PROPERTIES.  A state right after a call holds the call in last, the     *)
(* song before it in before and the song after it in current_song.         *)
(***************************************************************************)

(* The number of notes of every beat of every voice of every measure of    *)
(* every track.                                                            *)
Layout(song) ==
    IF song = NoSong THEN <<>>
    ELSE Tuple([t \in 1..Len(song.tracks) |->
           Tuple([m \in 1..Len(song.tracks[t].measures) |->
             Tuple([v \in 1..Len(song.tracks[t].measures[m].voices) |->
               Tuple([b \in 1..Len(song.tracks[t].measures[m].voices[v].beats) |->
                 Len(song.tracks[t].measures[m].voices[v].beats[b].notes)])])])])

(* The places <<measure, voice, beat, note>> of the notes of a track.      *)
Positions(track) ==
    UNION {UNION {UNION {
        {<<m, v, b, k>> :
            k \in 1..Len(track.measures[m].voices[v].beats[b].notes)} :
        b \in 1..Len(track.measures[m].voices[v].beats)} :
        v \in 1..Len(track.measures[m].voices)} :
        m \in 1..Len(track.measures)}

NoteAt(track, p) == track.measures[p[1]].voices[p[2]].beats[p[3]].notes[p[4]]

AllNotes(song) == NotesOf(BeatsOf(VoicesOf(song)))

(* C1: in every state reached from create_new_song by mutating operations, *)
(* every track of the current song has as many measures as the song has    *)
(* measure headers -- also a track that add_track added after headers.     *)
C1_HeaderMeasureInvariant ==
    (current_song # NoSong /\ origin = "create_new_song") =>
        \A t \in 1..Len(current_song.tracks) :
            Len(current_song.tracks[t].measures)
                = Len(current_song.measureHeaders)

C2_FirstNote ==
    last.op = "add_note" /\ earlier.op = "create_new_song"
    /\ last.args.track_index = 0 /\ last.args.measure_index = 0
    /\ last.args.voice_index = 0 /\ last.args.beat_index = 0

(* C2: right after create_new_song, add_note on track 0, measure 0 with    *)
(* the default voice and beat index succeeds, and get_track_notes(0) then  *)
(* returns exactly one entry, with the string, fret and duration given.    *)
C2_CreateThenAddNote ==
    C2_FirstNote =>
        /\ ~last.raised /\ last.ret = TRUE
        /\ \E notes \in {get_track_notes(current_song, 0)} :
            /\ Len(notes) = 1
            /\ notes[1].string = last.args.string
            /\ notes[1].value = last.args.fret
            /\ notes[1].duration = last.args.duration

C2_CreateThenAddNote_Reached ==
    C2_FirstNote /\ last.ret = TRUE /\ AllNotes(before) = <<>>

(* C3: on a loaded song, add_note with a track index equal to the number   *)
(* of tracks, above it or below 0 reports failure and leaves the song      *)
(* exactly as it was.                                                      *)
C3_TrackIndexBoundary ==
    (last.op = "add_note" /\ before # NoSong
     /\ (last.args.track_index < 0
         \/ last.args.track_index >= Len(before.tracks))) =>
        /\ ~last.raised /\ last.ret = FALSE
        /\ current_song = before

C3_TrackIndexBoundary_Reached ==
    last.op = "add_note" /\ before # NoSong /\ last.ret = FALSE
    /\ last.args.track_index = Len(before.tracks)
    /\ AllNotes(before) # <<>>

(* C4: when add_note or add_note_with_effects returns the failure          *)
(* indicator, every measure has as many voices, every voice as many beats  *)
(* and every beat as many notes as before the call.                        *)
C4_NoPartialMutation ==
    (last.op \in {"add_note", "add_note_with_effects"}
     /\ ~last.raised /\ last.ret = FALSE) =>
        Layout(current_song) = Layout(before)

C5_OutOfRange ==
    last.op = "set_track_properties" /\ before # NoSong
    /\ last.args.track_index >= 0
    /\ last.args.track_index < Len(before.tracks)
    /\ \/ \E i \in last.args.instrument : i < 0 \/ i > 127
       \/ \E v \in last.args.volume : v < 0 \/ v > 100
       \/ \E b \in last.args.pan : b < 0 - 64 \/ b > 63

(* C5: when a value given to set_track_properties is out of range, the     *)
(* call returns failure and the track keeps its name, instrument, volume   *)
(* and balance.                                                            *)
C5_AllOrNothing ==
    C5_OutOfRange =>
        /\ ~last.raised /\ last.ret = FALSE
        /\ \E old \in {before.tracks[last.args.track_index + 1]} :
           \E new \in {current_song.tracks[last.args.track_index + 1]} :
            /\ new.name = old.name
            /\ new.instrument = old.instrument
            /\ new.volume = old.volume
            /\ new.balance = old.balance

(* C6: transpose_track never changes the fret of a note whose tied flag is *)
(* set, never changes a note of another track, and never changes the       *)
(* string number of a note.                                                *)
C6_TieSkip ==
    (last.op = "transpose_track" /\ before # NoSong) =>
        /\ Layout(current_song) = Layout(before)
        /\ \A t \in 1..Len(before.tracks) :
           \A p \in Positions(before.tracks[t]) :
           \E old \in {NoteAt(before.tracks[t], p)} :
           \E new \in {NoteAt(current_song.tracks[t], p)} :
            /\ new.string = old.string
            /\ old.isTiedNote => new.value = old.value
            /\ t # last.args.track_index + 1 => new = old

C6_TieSkip_Reached ==
    /\ last.op = "transpose_track" /\ before # NoSong /\ last.ret = TRUE
    /\ \E t \in {last.args.track_index + 1} :
       \E p, q \in Positions(before.tracks[t]) :
        /\ NoteAt(before.tracks[t], p).isTiedNote
        /\ NoteAt(current_song.tracks[t], q).value
              # NoteAt(before.tracks[t], q).value

(* Two successful calls in a row, transpose_track(i, n) and then           *)
(* transpose_track(i, -n): earlier.song is the song before the two calls,  *)
(* before the song between them, current_song the song after them.         *)
InverseCalls ==
    /\ last.op = "transpose_track" /\ ~last.raised /\ last.ret = TRUE
    /\ earlier.op = "transpose_track"
    /\ last.args.track_index = earlier.args.track_index
    /\ last.args.semitones = 0 - earlier.args.semitones

(* C7 as stated: transpose_track(i, n) followed by transpose_track(i, -n)  *)
(* restores the fret of every note of the track whose fret was >= 0        *)
(* before, between and after the two calls.                                *)
C7_InverseAsStated ==
    InverseCalls =>
        \E t \in {last.args.track_index + 1} :
        \A p \in Positions(earlier.song.tracks[t]) :
            (/\ NoteAt(earlier.song.tracks[t], p).value >= 0
             /\ NoteAt(before.tracks[t], p).value >= 0
             /\ NoteAt(current_song.tracks[t], p).value >= 0) =>
                NoteAt(current_song.tracks[t], p).value
                    = NoteAt(earlier.song.tracks[t], p).value

(* C7: transpose_track(i, n) followed by transpose_track(i, -n) restores   *)
(* the fret of every note of the track whose fret f before the two calls   *)
(* satisfies f >= 0 and f + n >= 0.                                        *)
C7_InverseUnclamped ==
    InverseCalls =>
        \E t \in {last.args.track_index + 1} :
        \A p \in Positions(earlier.song.tracks[t]) :
            (/\ NoteAt(earlier.song.tracks[t], p).value >= 0
             /\ NoteAt(earlier.song.tracks[t], p).value
                    + earlier.args.semitones >= 0) =>
                NoteAt(current_song.tracks[t], p).value
                    = NoteAt(earlier.song.tracks[t], p).value

C7_InverseUnclamped_Reached ==
    /\ InverseCalls
    /\ \E t \in {last.args.track_index + 1} :
       \E p \in Positions(earlier.song.tracks[t]) :
        /\ NoteAt(earlier.song.tracks[t], p).value >= 0
        /\ NoteAt(before.tracks[t], p).value
              = NoteAt(earlier.song.tracks[t], p).value + earlier.args.semitones
        /\ NoteAt(current_song.tracks[t], p).value
              = NoteAt(earlier.song.tracks[t], p).value

C8_ValidCall ==
    last.op = "transpose_track" /\ before # NoSong
    /\ last.args.track_index >= 0
    /\ last.args.track_index < Len(before.tracks)

(* C8: with a valid track index transpose_track(i, n) returns success;     *)
(* every note that is not tied and lies on an existing string ends with    *)
(* fret old + n when old + n >= 0 and with its old fret otherwise; no note *)
(* gets a negative fret that it did not have.                              *)
C8_TransposeResult ==
    C8_ValidCall =>
        /\ ~last.raised /\ last.ret = TRUE
        /\ Layout(current_song) = Layout(before)
        /\ \E t \in {last.args.track_index + 1} :
           \A p \in Positions(before.tracks[t]) :
           \E old \in {NoteAt(before.tracks[t], p)} :
           \E new \in {NoteAt(current_song.tracks[t], p)} :
            /\ (/\ ~old.isTiedNote
                /\ \E i \in 1..Len(before.tracks[t].strings) :
                      before.tracks[t].strings[i].number = old.string) =>
                   new.value = IF old.value + last.args.semitones >= 0
                               THEN old.value + last.args.semitones
                               ELSE old.value
            /\ new.value < 0 => new.value = old.value

C8_TransposeResult_Reached ==
    /\ C8_ValidCall /\ last.ret = TRUE
    /\ \E t \in {last.args.track_index + 1} :
       \E p, q \in Positions(before.tracks[t]) :
        /\ ~NoteAt(before.tracks[t], p).isTiedNote
        /\ NoteAt(before.tracks[t], p).value + last.args.semitones < 0
        /\ NoteAt(current_song.tracks[t], p).value
              = NoteAt(before.tracks[t], p).value
        /\ NoteAt(current_song.tracks[t], q).value
              # NoteAt(before.tracks[t], q).value

(* C9: create_new_song(title, artist) leaves a song with that title and    *)
(* artist, exactly one track, one measure header, one measure in the       *)
(* track and tempo 120, whatever was held before; no track, header or note *)
(* of the song held before is in it.                                       *)
C9_CreateNewSong ==
    last.op = "create_new_song" =>
        /\ ~last.raised /\ last.ret = TRUE
        /\ current_song # NoSong
        /\ current_song.title = last.args.title
        /\ current_song.artist = last.args.artist
        /\ current_song.tempo = 120
        /\ Len(current_song.tracks) = 1
        /\ Len(current_song.measureHeaders) = 1
        /\ Len(current_song.tracks[1].measures) = 1
        /\ current_song.tracks[1].name = "Guitar"
        /\ current_song.measureHeaders[1] = NewMeasureHeader
        /\ AllNotes(current_song) = <<>>

C9_CreateNewSong_Reached ==
    /\ last.op = "create_new_song" /\ before # NoSong
    /\ Len(before.tracks) > 1
    /\ AllNotes(before) # <<>>

C10_SetOnHeader ==
    last.op \in {"set_time_signature", "set_key_signature", "set_tempo"}
    /\ before # NoSong /\ last.args.measure_index >= 0

(* C10: with a song loaded and a measure index m >= 0, after               *)
(* set_time_signature, set_key_signature or set_tempo the song has         *)
(* max(previous number, m + 1) measure headers, every track has gained as  *)
(* many measures as headers were added, and the headers at indices other   *)
(* than m keep their time signature and key signature.                     *)
C10_HeadersGrow ==
    C10_SetOnHeader =>
        \E was \in {Len(before.measureHeaders)} :
        \E now \in {Len(current_song.measureHeaders)} :
            /\ now = IF was >= last.args.measure_index + 1 THEN was
                     ELSE last.args.measure_index + 1
            /\ Len(current_song.tracks) = Len(before.tracks)
            /\ \A t \in 1..Len(before.tracks) :
                  Len(current_song.tracks[t].measures)
                      = Len(before.tracks[t].measures) + (now - was)
            /\ \A i \in 1..now :
                  i # last.args.measure_index + 1 =>
                      current_song.measureHeaders[i]
                          = IF i <= was THEN before.measureHeaders[i]
                            ELSE NewMeasureHeader

C10_HeadersGrow_Reached ==
    /\ C10_SetOnHeader /\ last.op = "set_key_signature" /\ last.ret = TRUE
    /\ last.args.measure_index > Len(before.measureHeaders)
    /\ \E i \in 1..Len(before.measureHeaders) :
          before.measureHeaders[i] # NewMeasureHeader


ReadOperations ==
    {"get_song_info", "get_tracks", "get_track_notes", "get_song_statistics",
     "get_song_structure"}

(* C11: with no song held, each read operation (get_song_info, get_tracks, *)
(* get_track_notes, get_song_statistics, get_song_structure) returns       *)
(* without raising and its result is an empty list or an empty mapping.    *)
C11_ReadsOnAbsentModel ==
    (last.op \in ReadOperations /\ before = NoSong) =>
        /\ ~last.raised
        /\ DOMAIN last.ret = {}


SongMutators ==
    {"add_track", "add_measure_header", "add_note", "add_note_simple",
     "add_note_with_effects", "set_time_signature", "set_key_signature",
     "set_tempo", "transpose_track", "set_track_properties"}

(* C12: while no song is held, a mutating operation other than             *)
(* create_new_song and the load operations reports failure and leaves the  *)
(* controller without a song; none of them creates a song.                 *)
C12_MutatorsNeedSong ==
    (last.op \in SongMutators /\ before = NoSong) =>
        /\ current_song = NoSong
        /\ (last.raised \/ last.ret = FALSE)


(* The tick at which message k of a track starts: the sum of the times of  *)
(* the messages up to it.                                                  *)
RECURSIVE Onset(_, _)
Onset(messages, k) ==
    IF k = 0 THEN 0
    ELSE Onset(messages, k - 1)
         + (IF "time" \in DOMAIN messages[k] THEN messages[k].time ELSE 0)

RECURSIVE NotesUpTo(_, _)
NotesUpTo(beats, b) ==
    IF b = 0 THEN 0 ELSE NotesUpTo(beats, b - 1) + Len(beats[b].notes)

(* The place in the messages of a track of the note_on of note k of        *)
(* beat b: two messages open the track, two messages follow per note.      *)
NoteOn(beats, b, k) == 2 + 2 * (NotesUpTo(beats, b - 1) + k) - 1

MidiIndex(song, t) ==
    Cardinality({i \in 1..t : ~song.tracks[i].isPercussionTrack})

Exported == last.op = "export_to_midi" /\ before # NoSong /\ last.ret = TRUE

(* C13: in the exported file of every track that is not a percussion track *)
(* all notes of one beat start at the same tick, and the notes of the beat *)
(* that follows start tick_duration of this beat later: the timeline moves *)
(* on once per beat, whatever the number of notes of the beat.             *)
C13_CursorOncePerBeat ==
    Exported =>
        \A t \in 1..Len(before.tracks) :
            ~before.tracks[t].isPercussionTrack =>
            \E messages \in {last.written[MidiIndex(before, t)]} :
            \E beats \in {TrackBeats(before.tracks[t])} :
            \A b \in 1..Len(beats) :
                /\ \A k \in 1..Len(beats[b].notes) :
                      Onset(messages, NoteOn(beats, b, k))
                          = Onset(messages, NoteOn(beats, b, 1))
                /\ (b < Len(beats) /\ beats[b].notes # <<>>
                       /\ beats[b + 1].notes # <<>>) =>
                      Onset(messages, NoteOn(beats, b + 1, 1))
                          = Onset(messages, NoteOn(beats, b, 1))
                            + tick_duration(beats[b].duration)


(* The track without its beats that hold no note.                          *)
WithoutRests(track) ==
    [track EXCEPT !.measures =
        Tuple([m \in 1..Len(track.measures) |->
          [track.measures[m] EXCEPT !.voices =
            Tuple([v \in 1..Len(track.measures[m].voices) |->
              [track.measures[m].voices[v] EXCEPT !.beats =
                 SelectSeq(@, LAMBDA beat : beat.notes # <<>>)]])]])]

(* Beat b holds no note and beat c is the first beat after it that does.   *)
FirstAfterRest(beats, b, c) ==
    /\ beats[b].notes = <<>>
    /\ c > b /\ beats[c].notes # <<>>
    /\ \A d \in (b + 1)..(c - 1) : beats[d].notes = <<>>

(* C14: a beat without notes moves the timeline of its track on: the first *)
(* note after it starts later than it does in the export of the same track *)
(* with the empty beats removed.                                           *)
C14_RestAdvances ==
    Exported =>
        \A t \in 1..Len(before.tracks) :
            ~before.tracks[t].isPercussionTrack =>
            \E messages \in {last.written[MidiIndex(before, t)]} :
            \E beats \in {TrackBeats(before.tracks[t])} :
            \A b, c \in 1..Len(beats) :
                FirstAfterRest(beats, b, c) =>
                    Onset(messages, NoteOn(beats, c, 1))
                        > Onset(MidiTrack(WithoutRests(before.tracks[t])),
                                NoteOn(beats, c, 1))


(* C15: the exported file has one track for each track of the song that is *)
(* not a percussion track, in the order of the song, each with the name of *)
(* its track and two messages per note of it; a percussion track gives no  *)
(* track and no message, whatever notes it holds.                          *)
C15_PercussionExcluded ==
    Exported =>
        /\ Len(last.written)
              = Cardinality({t \in 1..Len(before.tracks) :
                                ~before.tracks[t].isPercussionTrack})
        /\ \A t \in 1..Len(before.tracks) :
              ~before.tracks[t].isPercussionTrack =>
              \E messages \in {last.written[MidiIndex(before, t)]} :
                /\ messages[1].type = "track_name"
                /\ messages[1].name = before.tracks[t].name
                /\ Len(messages)
                      = 2 + 2 * Len(NotesOf(TrackBeats(before.tracks[t])))

C15_PercussionExcluded_Reached ==
    /\ Exported
    /\ \E t \in 2..(Len(before.tracks) - 1) :
        /\ before.tracks[t].isPercussionTrack
        /\ NotesOf(TrackBeats(before.tracks[t])) # <<>>
        /\ ~before.tracks[t - 1].isPercussionTrack
        /\ ~before.tracks[t + 1].isPercussionTrack
        /\ before.tracks[t - 1].name # before.tracks[t + 1].name
    /\ Len(last.written) = Len(before.tracks) - 1


Imported == last.op = "import_from_json" /\ last.ret = TRUE

(* C16: the song decoded from a tree has as many measure headers as its    *)
(* first track has measures, every track has as many measures as the song  *)
(* has headers, and measure k of every track refers to header k.           *)
C16_DecodeKeepsInvariant ==
    Imported =>
        /\ current_song.tracks # <<>> =>
              Len(current_song.measureHeaders)
                  = Len(current_song.tracks[1].measures)
        /\ \A t \in 1..Len(current_song.tracks) :
            /\ Len(current_song.tracks[t].measures)
                  = Len(current_song.measureHeaders)
            /\ \A k \in 1..Len(current_song.tracks[t].measures) :
                  current_song.tracks[t].measures[k].header = k - 1


(* The entry of the tree a decoded note, or the beat of a decoded note,    *)
(* was read from: the place <<measure, voice, beat, note>> of the tree.    *)
BeatData(track_data, p) ==
    track_data.measures[p[1]].voices[p[2]].beats[p[3]]

NoteData(track_data, p) == BeatData(track_data, p).notes[p[4]]

Lacks(d, key) == key \notin DOMAIN d

DecodedWithDefaults(json_data, song) ==
    /\ Lacks(Get(json_data, "metadata", EmptyDict), "title") => song.title = ""
    /\ Lacks(Get(json_data, "metadata", EmptyDict), "tempo") => song.tempo = 120
    /\ Len(song.tracks) = Len(Get(json_data, "tracks", <<>>))
    /\ \A t \in 1..Len(song.tracks) :
       \E track_data \in {json_data.tracks[t]} :
       \E track \in {song.tracks[t]} :
        /\ Lacks(track_data, "name") => track.name = "Track"
        /\ Lacks(track_data, "strings") => track.strings = <<>>
        /\ Lacks(track_data, "measures") => track.measures = <<>>
        /\ Lacks(track_data, "channel") =>
              track.instrument = 0 /\ track.volume = 100 /\ track.balance = 0
        /\ \A p \in Positions(track) :
            /\ Lacks(BeatData(track_data, p), "duration") =>
                  /\ BeatData(track, p).duration.value = 4
                  /\ ~BeatData(track, p).duration.isDotted
            /\ Lacks(Get(BeatData(track_data, p), "duration", EmptyDict),
                     "value") => BeatData(track, p).duration.value = 4
            /\ Lacks(NoteData(track_data, p), "string") =>
                  NoteAt(track, p).string = 1
            /\ Lacks(NoteData(track_data, p), "value") =>
                  NoteAt(track, p).value = 0
            /\ Lacks(NoteData(track_data, p), "velocity") =>
                  NoteAt(track, p).velocity = 100
            /\ Lacks(NoteData(track_data, p), "is_tied") =>
                  ~NoteAt(track, p).isTiedNote

MirrorsTrack(track_data, track) ==
    /\ Len(track_data.measures) = Len(track.measures)
    /\ \A m \in 1..Len(track.measures) :
        /\ Len(track_data.measures[m].voices) = Len(track.measures[m].voices)
        /\ \A v \in 1..Len(track.measures[m].voices) :
           \E beats_data \in {track_data.measures[m].voices[v].beats} :
           \E beats \in {track.measures[m].voices[v].beats} :
            /\ Len(beats_data) = Len(beats)
            /\ \A b \in 1..Len(beats) :
                /\ beats_data[b].duration.value = beats[b].duration.value
                /\ beats_data[b].duration.is_dotted = beats[b].duration.isDotted
                /\ Len(beats_data[b].notes) = Len(beats[b].notes)
                /\ \A k \in 1..Len(beats[b].notes) :
                    /\ beats_data[b].notes[k].string = beats[b].notes[k].string
                    /\ beats_data[b].notes[k].value = beats[b].notes[k].value

(* C18: for every song held, also one with notes, export_to_json succeeds  *)
(* and the tree written has the tracks, measures, voices, beats and notes  *)
(* of the song, one to one and in order, each note entry with the string   *)
(* and fret of its note and each beat entry with the duration value and    *)
(* dotted flag of its beat.                                                *)
C18_EncodeMirrors ==
    (last.op = "export_to_json" /\ before # NoSong) =>
        /\ ~last.raised /\ last.ret = TRUE
        /\ Len(last.written.tracks) = Len(before.tracks)
        /\ \A t \in 1..Len(before.tracks) :
              MirrorsTrack(last.written.tracks[t], before.tracks[t])


(***************************************************************************)
(* Decoding a file into the controller.                                    *)
(***************************************************************************)
DecodeFails ==
    \/ /\ last.op = "load_file"
       /\ ~(Decodes(last.args.file_path) /\ Inspects(last.args.file_path))
    \/ /\ last.op = "import_from_json"
       /\ json_import_from_json(last.args.file_path) = NoSong

(* C20: when load_file fails, on parse or on the inspection of the parsed  *)
(* song, or import_from_json fails, the caller is told (the call raises or *)
(* returns False) and the controller holds exactly the song it held before *)
(* the call, none included: the song the handler decoded is not installed. *)
C20_FailedDecodeKeepsSong ==
    DecodeFails =>
        /\ last.raised \/ last.ret = FALSE
        /\ current_song = before
        /\ "held" \in DOMAIN last => current_song # last.held

C20_FailedDecodeKeepsSong_Reached ==
    /\ last.op = "load_file"
    /\ ~Inspects(last.args.file_path)
    /\ "held" \in DOMAIN last
    /\ before # NoSong
    /\ before # last.held
    /\ current_song = before

(***************************************************************************)
(* The chord operation through the controller.                             *)
(***************************************************************************)
ChordIndexesValid ==
    /\ before # NoSong
    /\ last.args.track_index >= 0
    /\ last.args.track_index < Len(before.tracks)
    /\ last.args.measure_index >= 0
    /\ last.args.measure_index < Len(before.tracks[last.args.track_index + 1].measures)
    /\ Len(before.tracks[last.args.track_index + 1].measures[last.args.measure_index + 1].voices) > 0
    /\ last.args.beat_index >= 0
    /\ last.args.beat_index < Len(before.tracks[last.args.track_index + 1].measures[last.args.measure_index + 1].voices[1].beats)

(* C21: add_chord called on the controller that holds a song never fails   *)
(* for want of a handler: with a valid track, measure and beat index it    *)
(* returns True and the addressed beat holds the chord, with an index out  *)
(* of range it returns False.                                              *)
C21_AddChordOnController ==
    (last.op = "add_chord" /\ before # NoSong) =>
        /\ ~last.raised
        /\ IF ChordIndexesValid
           THEN /\ last.ret = TRUE
                /\ "chord" \in DOMAIN current_song.tracks[last.args.track_index + 1].measures[last.args.measure_index + 1].voices[1].beats[last.args.beat_index + 1]
           ELSE last.ret = FALSE

(***************************************************************************)
(* add_measure_header on a controller that holds a song.                   *)
(***************************************************************************)
HeaderAdded == last.op = "add_measure_header" /\ before # NoSong

(* C22: add_measure_header on a loaded song appends one header with time   *)
(* signature 4/4 and key C major and returns its index, the number of      *)
(* headers before the call; every track gains one measure, which refers to *)
(* the new header and holds one empty voice; the song's other fields, the  *)
(* headers and the measures that existed, with their beats and notes, are  *)
(* as before.                                                              *)
C22_AddMeasureHeader ==
    HeaderAdded =>
        /\ ~last.raised
        /\ last.ret = Len(before.measureHeaders)
        /\ current_song.measureHeaders
              = Append(before.measureHeaders,
                       [numerator |-> 4, denominator |-> 4, keySignature |-> 0])
        /\ Len(current_song.tracks) = Len(before.tracks)
        /\ \A t \in 1..Len(before.tracks) :
              /\ current_song.tracks[t].measures
                    = Append(before.tracks[t].measures,
                             [header |-> Len(before.measureHeaders),
                              voices |-> <<[beats |-> <<>>]>>])
              /\ current_song.tracks[t]
                    = [before.tracks[t] EXCEPT
                         !.measures = current_song.tracks[t].measures]
        /\ current_song = [before EXCEPT
                             !.measureHeaders = current_song.measureHeaders,
                             !.tracks = current_song.tracks]

C22_AddMeasureHeader_Reached ==
    /\ HeaderAdded
    /\ Len(before.tracks) >= 2
    /\ Len(before.measureHeaders) >= 1
    /\ \E t \in 1..Len(before.tracks) :
          Len(before.tracks[t].measures) # Len(before.measureHeaders)

(***************************************************************************)
(* The pitch of a note in transpose_track and in convert_to_midi.          *)
(***************************************************************************)
UniqueNumbers(strings) ==
    \A i, j \in 1..Len(strings) : strings[i].number = strings[j].number => i = j

Reordered(track, p) ==
    [track EXCEPT !.strings = Tuple([i \in 1..Len(track.strings) |-> track.strings[p[i]]])]

(* every order of the strings of a track gives the same exported track *)
MidiAnyOrder ==
    Exported =>
        \A t \in 1..Len(before.tracks) :
            UniqueNumbers(before.tracks[t].strings) =>
                \A p \in Permutations(1..Len(before.tracks[t].strings)) :
                    MidiTrack(Reordered(before.tracks[t], p)) = MidiTrack(before.tracks[t])

Transposed ==
    /\ last.op = "transpose_track" /\ before # NoSong /\ last.ret = TRUE
    /\ last.args.track_index >= 0

(* every order of the strings of a track gives the same transposed notes *)
TransposeAnyOrder ==
    Transposed =>
        \E t \in {last.args.track_index + 1} :
            UniqueNumbers(before.tracks[t].strings) =>
                \A p \in Permutations(1..Len(before.tracks[t].strings)) :
                    transpose_track([before EXCEPT !.tracks[t] = Reordered(@, p)],
                                    last.args.track_index,
                                    last.args.semitones).song.tracks[t].measures
                        = current_song.tracks[t].measures

(* an export that follows a transposition of a track *)
ExportedTransposed ==
    /\ Exported
    /\ earlier.op = "transpose_track"
    /\ earlier.args.track_index >= 0
    /\ ~earlier.song.tracks[earlier.args.track_index + 1].isPercussionTrack

(* the pitch convert_to_midi gives the j-th note of track t of the song *)
MidiPitch(song, t, j) ==
    convert_to_midi(song).written[MidiIndex(song, t)][2 + 2 * j - 1].note

(* the two operations give a note the same pitch: a note transpose_track   *)
(* is asked to move by n semitones, not tied and with fret + n >= 0, is    *)
(* exported n semitones above the pitch it was exported at before.         *)
PitchesAgree ==
    ExportedTransposed =>
        \E t \in {earlier.args.track_index + 1} :
        \E notes \in {NotesOf(TrackBeats(earlier.song.tracks[t]))} :
            \A j \in 1..Len(notes) :
                (~notes[j].isTiedNote /\ notes[j].value + earlier.args.semitones >= 0) =>
                    MidiPitch(before, t, j)
                        = MidiPitch(earlier.song, t, j) + earlier.args.semitones

(* C23: transpose_track and convert_to_midi take for a note the value of   *)
(* the track string whose number is the note's string number: on a track   *)
(* with unique string numbers the result of either is the same for every   *)
(* order of the string list, and the two agree on the pitch of every note, *)
(* also of a note whose string number is the number of no string.          *)
C23_PitchByStringNumber ==
    /\ MidiAnyOrder
    /\ TransposeAnyOrder
    /\ PitchesAgree

(***************************************************************************)
(* Tied notes in the exported file.                                        *)
(***************************************************************************)
(* the places before j of the notes that are not tied and lie on the       *)
(* string of note j                                                        *)
TiedTo(notes, j) ==
    {i \in 1..(j - 1) : ~notes[i].isTiedNote /\ notes[i].string = notes[j].string}

LastOf(S) == CHOOSE i \in S : \A k \in S : k <= i

(* C24: in the exported file a tied note has the pitch of the most recent  *)
(* note before it in its track, in voice order, that is not tied and lies  *)
(* on the same string -- not the open-string value plus its own fret.      *)
C24_TiedPitch ==
    Exported =>
        \A t \in 1..Len(before.tracks) :
            ~before.tracks[t].isPercussionTrack =>
                \E notes \in {NotesOf(TrackBeats(before.tracks[t]))} :
                    \A j \in 1..Len(notes) :
                        (notes[j].isTiedNote /\ TiedTo(notes, j) # {}) =>
                            last.written[MidiIndex(before, t)][2 + 2 * j - 1].note
                              = last.written[MidiIndex(before, t)][2 + 2 * LastOf(TiedTo(notes, j)) - 1].note

(***************************************************************************)
(* The ticks of a beat in the exported file.                               *)
(***************************************************************************)
(* a / b rounded to the nearest integer, a half to the even one *)
Round(a, b) ==
    IF 2 * (a % b) < b THEN a \div b
    ELSE IF 2 * (a % b) > b THEN (a \div b) + 1
    ELSE IF (a \div b) % 2 = 0 THEN a \div b
    ELSE (a \div b) + 1

(* C25: for a beat of duration value v > 0, a power of two or not, the     *)
(* note_off of each of its notes comes round(480 * 4 / v) ticks after the  *)
(* note_on, and 1.5 times that number when the beat is dotted.             *)
C25_TickDuration ==
    Exported =>
        \A t \in 1..Len(before.tracks) :
            ~before.tracks[t].isPercussionTrack =>
                \E beats \in {TrackBeats(before.tracks[t])} :
                    \A b \in 1..Len(beats) : \A k \in 1..Len(beats[b].notes) :
                      \E ticks \in {last.written[MidiIndex(before, t)][NoteOn(beats, b, k) + 1].time} :
                        beats[b].duration.value > 0 =>
                            IF beats[b].duration.isDotted
                            THEN 2 * ticks = 3 * Round(480 * 4, beats[b].duration.value)
                            ELSE ticks = Round(480 * 4, beats[b].duration.value)

(***************************************************************************)
(* set_tempo on a controller that holds a song.                            *)
(***************************************************************************)
TempoSet ==
    last.op = "set_tempo" /\ before # NoSong /\ last.args.measure_index >= 0

HeaderOperations ==
    {"set_time_signature", "set_key_signature", "set_tempo", "add_coda",
     "add_double_bar"}

(* C27: set_time_signature, set_key_signature, set_tempo, add_coda and     *)
(* add_double_bar called on a loaded song with a measure index below 0     *)
(* report failure and leave every measure header and the tempo of the song *)
(* as they were.                                                           *)
C27_NegativeMeasureIndex ==
    (last.op \in HeaderOperations /\ before # NoSong
        /\ last.args.measure_index < 0) =>
            /\ last.raised \/ last.ret = FALSE
            /\ current_song.measureHeaders = before.measureHeaders
            /\ current_song.tempo = before.tempo

(***************************************************************************)
(* Repeat groups.                                                          *)
(***************************************************************************)
RepeatClose(header) == GetAttr(header, "repeatClose", NoRepeatClose)

RepeatOpen(header) == GetAttr(header, "isRepeatOpen", FALSE)

RepeatAlternative(header) == GetAttr(header, "repeatAlternative", NoAlternative)

NoRepeats(song) ==
    /\ GetAttr(song, "repeatGroups", <<>>) = <<>>
    /\ \A i \in 1..Len(song.measureHeaders) :
          /\ RepeatClose(song.measureHeaders[i]) <= 0
          /\ ~RepeatOpen(song.measureHeaders[i])

RepeatInside ==
    /\ last.op = "add_repeat_group" /\ before # NoSong
    /\ 0 <= last.args.start_measure
    /\ last.args.start_measure < last.args.end_measure
    /\ last.args.end_measure < Len(before.measureHeaders)

(* C28: after add_repeat_group(start, end, repeat_count = c) with          *)
(* 0 <= start < end < len(measureHeaders) on a song without repeats, the   *)
(* header at end is the only one whose repeat-close count is above 0, the  *)
(* header at start the only one with the repeat-open flag, and a header    *)
(* has an alternative ending only when its repeat-close count is above 0.  *)
C28_RepeatCloseOnLast ==
    (RepeatInside /\ NoRepeats(before)) =>
        \A i \in 1..Len(current_song.measureHeaders) :
            /\ RepeatClose(current_song.measureHeaders[i]) > 0
                  <=> i = last.args.end_measure + 1
            /\ RepeatOpen(current_song.measureHeaders[i])
                  <=> i = last.args.start_measure + 1
            /\ RepeatAlternative(current_song.measureHeaders[i]) > 0
                  => RepeatClose(current_song.measureHeaders[i]) > 0

(* the indices start..end as a list *)
Range(start, end) == Tuple([i \in 1..(end - start + 1) |-> start + i - 1])

(* get_repeat_groups called right after an add_repeat_group that returned  *)
(* True for a range inside the header list                                 *)
ReadAfterRepeat ==
    /\ last.op = "get_repeat_groups"
    /\ earlier.op = "add_repeat_group"
    /\ 0 <= earlier.args.start_measure
    /\ earlier.args.start_measure <= earlier.args.end_measure
    /\ earlier.args.end_measure < Len(earlier.song.measureHeaders)

RepeatOutside ==
    /\ last.op = "add_repeat_group" /\ before # NoSong
    /\ last.args.start_measure <= last.args.end_measure
    /\ last.args.start_measure >= Len(before.measureHeaders)

(* C29: get_repeat_groups after a successful add_repeat_group(start, end,  *)
(* repeat_count = c, endings = E) with start..end inside the header list   *)
(* returns for the group an entry whose measures are start..end, whose     *)
(* repeat_count is c and whose endings are empty exactly when E is; and    *)
(* add_repeat_group with start..end wholly outside the header list returns *)
(* False and adds no group to the song.                                    *)
C29_RepeatGroupsReadBack ==
    /\ ReadAfterRepeat =>
          /\ ~last.raised
          /\ Len(last.ret) = Len(GetAttr(earlier.song, "repeatGroups", <<>>)) + 1
          /\ \E entry \in {last.ret[Len(last.ret)]} :
                /\ entry.measures
                      = Range(earlier.args.start_measure, earlier.args.end_measure)
                /\ entry.repeat_count = earlier.args.repeat_count
                /\ entry.endings = <<>> <=> ~Truthy(earlier.args.endings)
    /\ RepeatOutside =>
          /\ last.ret = FALSE
          /\ GetAttr(current_song, "repeatGroups", <<>>)
                = GetAttr(before, "repeatGroups", <<>>)

(***************************************************************************)
(* The song handed from the controller to its handlers and back.           *)
(***************************************************************************)
(* what the operation of the call in progress gives on a song *)
OutcomeOn(song) ==
    CASE last.op = "create_new_song" ->
            create_new_song(song, last.args.title, last.args.artist)
      [] last.op = "load_file" -> load_file(song, last.args.file_path)
      [] last.op = "import_from_json" ->
            import_from_json(song, last.args.file_path)
      [] last.op = "add_track" -> add_track(song, last.args.name)
      [] last.op = "get_tracks" -> get_tracks(song)

Dispatched == last # Idle /\ "handler_had" \in DOMAIN last

(* C30: every operation called on the controller acts on the song the      *)
(* operation before it left in the controller, whichever handler serves it *)
(* and whatever song that handler held from an earlier call; and after a   *)
(* call that returns, the controller's song is the serving handler's song. *)
C30_FacadeHandOff ==
    Dispatched =>
        /\ last.ret = OutcomeOn(before).ret
        /\ last.raised = OutcomeOn(before).raised
        /\ current_song =
              IF last.raised /\ before = NoSong THEN NoSong
              ELSE OutcomeOn(before).song
        /\ ~last.raised => handler_song[HandlerOf(last.op)] = current_song

C30_FacadeHandOff_Reached ==
    /\ Dispatched
    /\ last.op \in {"add_track", "get_tracks"}
    /\ origin \in {"load_file", "import_from_json"}
    /\ before # NoSong
    /\ last.handler_had # NoSong
    /\ last.handler_had # before
    /\ OutcomeOn(last.handler_had).ret # OutcomeOn(before).ret

=============================================================================
